---- MODULE Spec2Model ----
(***************************************************************************)
(* The chain engine of lisk-chain (class Chain): the in-memory tip, the    *)
(* block header cache, the persistent store behind DataAccess, the         *)
(* StateStore overlay of one block application, and the notifications the  *)
(* engine emits.  Chain is translated from                                 *)
(* src/src/commands/node/start/index.ts (lines 73-566).  DataAccess,       *)
(* StateStore, Slots, block_reward, validate and verify are imported by    *)
(* that file but are not part of the sources at hand; they are modelled    *)
(* from the specification (sections 4.1-4.3) and marked so in the model    *)
(* map.                                                                    *)
(***************************************************************************)
EXTENDS Integers, Sequences, FiniteSets, TLC

(***************************************************************************)
(* Bounds of the model.                                                    *)
(***************************************************************************)
\* Heights a received block may declare: 1..MaxHeight.
MaxHeight == 2
\* Reward schedules other than the default one: offsets 0..MaxOffset,
\* distances 1..MaxDistance, asked at heights 0..MaxRewardHeight.
MaxOffset == 2
MaxDistance == 2
MaxRewardHeight == 8

(***************************************************************************)
(* Values.                                                                 *)
(***************************************************************************)
Addresses == {"a1", "a2"}
\* The account values (balance-like) the reducers write; the genesis account
\* starts at 1.
Balances == {0}
\* Optional values: <<>> for a key the store does not hold or a value never
\* set, <<v>> for the value v.
None == <<>>
Some(v) == <<v>>

\* Header versions: the genesis block's and that of every other block.
GenesisVersion == 0
BlockVersion == 2

\* minBlockHeaderCache / maxBlockHeaderCache handed to the constructor.
minBlockHeaderCache == 1
maxBlockHeaderCache == 2

\* The store holds at most one block more than the header cache, so that the
\* cache evicts and refills.
MaxBlocks == maxBlockHeaderCache + 1

\* Names of the notifications.
EVENT_NEW_BLOCK == "NEW_BLOCK"
EVENT_DELETE_BLOCK == "DELETE_BLOCK"
EVENT_VALIDATORS_CHANGED == "VALIDATORS_CHANGED"

(***************************************************************************)
(* Blocks.  A block's id is a content hash of its header: the model takes  *)
(* the hashed content itself as the id, so two headers have the same id    *)
(* exactly when they have the same content.  The payload (transactions) is *)
(* not modelled.                                                           *)
(***************************************************************************)
BlockID(height, previousBlockID, version) == <<height, previousBlockID, version>>

MakeBlock(height, previousBlockID, version) ==
    [header |-> [id |-> BlockID(height, previousBlockID, version),
                 height |-> height,
                 previousBlockID |-> previousBlockID,
                 version |-> version]]

\* The genesis block handed to the constructor: height 0, no previous block,
\* one genesis account, one initial delegate, initRounds = 2.
GenesisHeight == 0
InitRounds == 2
GenesisAccounts == <<[address |-> "a1", value |-> 1]>>
InitDelegates == <<"a1">>
genesisBlock == MakeBlock(GenesisHeight, <<>>, GenesisVersion)


(***************************************************************************)
(* State.                                                                  *)
(***************************************************************************)
VARIABLES
    db,                 \* the persistent store behind DataAccess
    cache,              \* DataAccess: the cached block headers, oldest first
    lastBlock,          \* Chain._lastBlock, the in-memory tip
    numberOfValidators, \* Chain._numberOfValidators
    stateStore,         \* the StateStore of the block being applied (open or not)
    call,               \* the saveBlock / removeBlock call in flight
    events,             \* notifications emitted by the last operation, in order
    outcome,            \* how the last operation ended, and what it touched
    history,            \* what the last saveBlock started from (not program state)
    constants,          \* Chain.constants: the reward schedule given to the constructor
    rewardCalls         \* the last two calculateDefaultReward calls and their results

chainVars == <<db, cache, lastBlock, numberOfValidators, stateStore, call, events,
               outcome, history>>
rewardVars == <<constants, rewardCalls>>
vars == <<chainVars, rewardVars>>

(***************************************************************************)
(* The serialization service: an opaque pair of inverse functions.  An     *)
(* encoded value is the pair of its schema and the value.                  *)
(***************************************************************************)
validatorsSchema == "validators"
Encode(schema, value) == <<schema, value>>
Decode(schema, bytes) == bytes[2]

(***************************************************************************)
(* StateStore: the overlay of one block application.  account.data holds   *)
(* the values set, account.updated the dirty addresses in the order they   *)
(* were first set, account.initial the stored value of each dirty address  *)
(* when it was first touched; consensus likewise for the validators key.   *)
(* ConsensusGet returns an optional value, as the store's get does.        *)
(***************************************************************************)
EmptyStateStore ==
    [account |-> [data |-> [a \in Addresses |-> None],
                  initial |-> [a \in Addresses |-> None],
                  updated |-> <<>>],
     consensus |-> [data |-> None, initial |-> None]]

Dirty(store) == {store.account.updated[i] : i \in 1..Len(store.account.updated)}

\* stateStore.account.get(address): the overlay's value when it holds one
\* (no storage access); otherwise the stored value, which is kept in the
\* overlay without marking the address dirty; NotFound when there is none.
AccountGet(store, d, address) ==
    IF store.account.data[address] # None
    THEN [value |-> store.account.data[address], store |-> store, accesses |-> 0]
    ELSE IF d.accounts[address] # None
    THEN [value |-> d.accounts[address],
          store |-> [store EXCEPT !.account.data[address] = d.accounts[address],
                                  !.account.initial[address] = d.accounts[address]],
          accesses |-> 1]
    ELSE [value |-> None, store |-> store, accesses |-> 1]

\* stateStore.account.set(address, value)
AccountSet(store, d, address, value) ==
    [store EXCEPT
        !.account.data[address] = Some(value),
        !.account.initial[address] =
            IF store.account.data[address] # None THEN @ ELSE d.accounts[address],
        !.account.updated =
            IF address \in Dirty(store) THEN @ ELSE Append(@, address)]

\* stateStore.account.getUpdated(): the dirty accounts, in order
GetUpdated(store) ==
    [i \in 1..Len(store.account.updated) |->
        [address |-> store.account.updated[i],
         value |-> store.account.data[store.account.updated[i]][1]]]

\* stateStore.consensus.get(key): the overlay's value, else the store's
ConsensusGet(store, d) ==
    IF store.consensus.data # None THEN store.consensus.data ELSE d.consensus

\* stateStore.consensus.set(key, bytes)
ConsensusSet(store, d, bytes) ==
    [store EXCEPT
        !.consensus.data = Some(bytes),
        !.consensus.initial =
            IF store.consensus.data # None THEN @ ELSE d.consensus]

\* The diff of a StateStore: for every dirty key its value before the block.
StateDiff(store) ==
    [accounts |-> {[address |-> a, previous |-> store.account.initial[a]] :
                        a \in Dirty(store)},
     consensus |-> IF store.consensus.data # None
                   THEN <<store.consensus.initial>> ELSE <<>>]

(***************************************************************************)
(* DataAccess over the persistent store.                                   *)
(***************************************************************************)
EmptyDB ==
    [blocks |-> {},
     accounts |-> [a \in Addresses |-> None],
     consensus |-> None,
     diffs |-> {}]

StoredIDs(d) == {b.header.id : b \in d.blocks}

\* dataAccess.getBlockByID(id); the caller checks id \in StoredIDs(d)
GetBlockByID(d, id) == CHOOSE b \in d.blocks : b.header.id = id

\* dataAccess.saveBlock: one atomic batch writing the block, the dirty
\* entries of the StateStore and the diff that reverses them.
DataAccessSaveBlock(d, block, store) ==
    [blocks |-> d.blocks \cup {block},
     accounts |-> [a \in Addresses |->
                     IF a \in Dirty(store) THEN store.account.data[a]
                                           ELSE d.accounts[a]],
     consensus |-> IF store.consensus.data # None THEN store.consensus.data
                                                  ELSE d.consensus,
     diffs |-> {x \in d.diffs : x.id # block.header.id}
               \cup {[id |-> block.header.id, diff |-> StateDiff(store)]}]

\* The stored diff of a block (an empty diff when none is stored).
DiffOf(d, block) ==
    IF \E x \in d.diffs : x.id = block.header.id
    THEN (CHOOSE x \in d.diffs : x.id = block.header.id).diff
    ELSE [accounts |-> {}, consensus |-> <<>>]

\* dataAccess.deleteBlock: one atomic batch deleting the block and its diff
\* and putting back every value the diff recorded.
DataAccessDeleteBlock(d, block) ==
    LET diff == DiffOf(d, block)
        touched == {x.address : x \in diff.accounts}
        prev(a) == (CHOOSE x \in diff.accounts : x.address = a).previous
    IN [blocks |-> d.blocks \ {block},
        accounts |-> [a \in Addresses |->
                        IF a \in touched THEN prev(a) ELSE d.accounts[a]],
        consensus |-> IF diff.consensus # <<>> THEN diff.consensus[1]
                                               ELSE d.consensus,
        diffs |-> {x \in d.diffs : x.id # block.header.id}]

\* What deleteBlock returns: the accounts it reverted, with their values.
RevertedAccounts(d, block) ==
    {[address |-> x.address, value |-> x.previous] : x \in DiffOf(d, block).accounts}

\* dataAccess.addBlockHeader: append, evicting the oldest beyond the maximum.
AddBlockHeader(c, header) ==
    LET added == Append(c, header)
    IN IF Len(added) > maxBlockHeaderCache THEN Tail(added) ELSE added

\* The cache without the header of the given id.
CacheRemove(c, id) == SelectSeq(c, LAMBDA h : h.id # id)

\* The stored headers that precede the oldest cached one (or the removed
\* header when the cache is empty), nearest first, following previousBlockID.
RECURSIVE Ancestors(_, _, _)
Ancestors(d, previousBlockID, n) ==
    IF n = 0 \/ previousBlockID \notin StoredIDs(d) THEN <<>>
    ELSE LET h == GetBlockByID(d, previousBlockID).header
         IN <<h>> \o Ancestors(d, h.previousBlockID, n - 1)

Reverse(s) == [i \in 1..Len(s) |-> s[Len(s) + 1 - i]]

\* Whether removing the header leaves the cache below its minimum with
\* older headers in storage: then removeBlockHeader reads the store.
NeedsRefill(d, c, header) ==
    LET rest == CacheRemove(c, header.id)
        from == IF rest = <<>> THEN header.previousBlockID
                               ELSE rest[1].previousBlockID
    IN Len(rest) < minBlockHeaderCache /\ from \in StoredIDs(d)

\* dataAccess.removeBlockHeader when its read of the store (if any) succeeds.
RemoveBlockHeader(d, c, header) ==
    LET rest == CacheRemove(c, header.id)
        from == IF rest = <<>> THEN header.previousBlockID
                               ELSE rest[1].previousBlockID
    IN IF NeedsRefill(d, c, header)
       THEN Reverse(Ancestors(d, from, maxBlockHeaderCache - Len(rest))) \o rest
       ELSE rest


(***************************************************************************)
(* The reward schedule.                                                    *)
(***************************************************************************)
\* The defaults of genesisConfig.rewards.
DefaultRewardOffset == 2160
DefaultRewardDistance == 3000000
DefaultRewardMilestones == <<500000000, 400000000, 300000000, 200000000, 100000000>>

DefaultConstants ==
    [rewardDistance |-> DefaultRewardDistance,
     rewardOffset |-> DefaultRewardOffset,
     rewardMilestones |-> DefaultRewardMilestones]

\* block_reward: 0 below the offset; from the offset on, one milestone per
\* run of `distance` heights, the last milestone once the list is exhausted.
calculateMilestone(height, args) ==
    LET location == (height - args.rewardOffset) \div args.distance
    IN IF location > Len(args.milestones) - 1
       THEN Len(args.milestones) - 1
       ELSE location

calculateDefaultReward(height, args) ==
    IF height < args.rewardOffset THEN 0
    ELSE args.milestones[calculateMilestone(height, args) + 1]

\* A constructor that drops the configured offset.
BlockRewardArgsNoOffset(c) ==
    [distance |-> c.rewardDistance,
     rewardOffset |-> 0,
     milestones |-> c.rewardMilestones]

\* this._blockRewardArgs, as the constructor builds it.
BlockRewardArgs(c) ==
    [distance |-> c.rewardDistance,
     rewardOffset |-> c.rewardOffset,
     milestones |-> c.rewardMilestones]

\* A call that passes the next height.
ChainCalculateDefaultRewardNextHeight(height) ==
    calculateDefaultReward(height + 1, BlockRewardArgs(constants))

\* Chain.calculateDefaultReward(height)
ChainCalculateDefaultReward(height) ==
    calculateDefaultReward(height, BlockRewardArgs(constants))

(***************************************************************************)
(* Chain: construction.                                                    *)
(***************************************************************************)
Idle == [op |-> "none"]
ClosedStore == [open |-> FALSE, store |-> EmptyStateStore]
OpenStore(store) == [open |-> TRUE, store |-> store]
NoHistory == [stage |-> "none"]

\* What a synchronous listener of a notification can read when it is called.
Seen(tip, c, d) == [lastBlock |-> tip, cache |-> c, db |-> d]

\* How an operation ended or how far it is: the block it was called with,
\* what the engine held when it was called, its result ("pending", "ok" or
\* the error thrown), the number of storage operations it started, and the
\* effects it had, in order.
Outcome(op, block, started, result, accesses, order) ==
    [op |-> op, block |-> block, started |-> started, result |-> result,
     accesses |-> accesses, order |-> order]

\* No call has ended since the last StateStore operation.
NoOutcome == Outcome("none", <<>>, <<>>, "ok", 0, <<>>)

\* What saveBlock and removeBlock are to restore: the tip and the persisted
\* accounts and validator set.
Restorable(tip, d) ==
    [lastBlock |-> tip, accounts |-> d.accounts, consensus |-> d.consensus]

\* The chain part of the state after the constructor, on an empty store.
InitChain ==
    /\ db = EmptyDB
    /\ cache = <<>>
    /\ lastBlock = genesisBlock
    /\ numberOfValidators = -1
    /\ stateStore = ClosedStore
    /\ call = Idle
    /\ events = <<>>
    /\ outcome = NoOutcome
    /\ history = NoHistory

\* The state after the constructor, with the default reward schedule.
Init ==
    /\ InitChain
    /\ constants = DefaultConstants
    /\ rewardCalls = <<>>

(***************************************************************************)
(* StateStore lifecycle and the writes of the module reducers.             *)
(***************************************************************************)
\* The engine is past start-up: init or applyGenesisBlock has set the
\* validator count, or the store is still empty (first start).
Started == db.blocks = {} \/ numberOfValidators # -1

\* chain.newStateStore(): a fresh overlay; the one held before is discarded.
NewStateStore ==
    /\ call = Idle
    /\ stateStore' = OpenStore(EmptyStateStore)
    /\ events' = <<>>
    /\ outcome' = NoOutcome
    /\ history' = IF history.stage = "saved" THEN history ELSE NoHistory
    /\ UNCHANGED <<db, cache, lastBlock, numberOfValidators, call>>
    /\ UNCHANGED rewardVars

\* A reducer sets an account in the overlay.
StateStoreAccountSet ==
    /\ call = Idle
    /\ Started
    /\ stateStore.open
    /\ db.blocks # {}
    /\ \E a \in Addresses, v \in Balances :
          stateStore' = OpenStore(AccountSet(stateStore.store, db, a, v))
    /\ events' = <<>>
    /\ outcome' = NoOutcome
    /\ UNCHANGED <<db, cache, lastBlock, numberOfValidators, call, history>>
    /\ UNCHANGED rewardVars

\* A reducer reads an account through the overlay.
StateStoreAccountGet ==
    /\ call = Idle
    /\ Started
    /\ stateStore.open
    /\ db.blocks # {}
    /\ \E a \in Addresses :
          LET r == AccountGet(stateStore.store, db, a)
          IN /\ stateStore' = OpenStore(r.store)
             /\ outcome' = Outcome("account.get", a, stateStore.store,
                                   IF r.value = None THEN "NotFound" ELSE "ok",
                                   r.accesses, r.value)
    /\ events' = <<>>
    /\ UNCHANGED <<db, cache, lastBlock, numberOfValidators, call, history>>
    /\ UNCHANGED rewardVars

(***************************************************************************)
(* Chain.applyGenesisBlock                                                 *)
(***************************************************************************)
RECURSIVE SetAccounts(_, _, _)
SetAccounts(store, d, accounts) ==
    IF accounts = <<>> THEN store
    ELSE SetAccounts(AccountSet(store, d, Head(accounts).address, Head(accounts).value),
                     d, Tail(accounts))

\* Initial validators that are active from the genesis height itself.
InitialValidatorsAtGenesisHeight ==
    [i \in 1..Len(InitDelegates) |->
        [address |-> InitDelegates[i],
         minActiveHeight |-> genesisBlock.header.height,
         isConsensusParticipant |-> FALSE]]

\* initDelegates.map(address => ({address, minActiveHeight, isConsensusParticipant}))
InitialValidators ==
    [i \in 1..Len(InitDelegates) |->
        [address |-> InitDelegates[i],
         minActiveHeight |-> genesisBlock.header.height + 1,
         isConsensusParticipant |-> FALSE]]

ApplyGenesisBlockStore(store, d) ==
    ConsensusSet(SetAccounts(store, d, GenesisAccounts), d,
                 Encode(validatorsSchema, InitialValidators))

\* Called once, by the node's start-up, when the store holds no genesis block.
ApplyGenesisBlock ==
    /\ call = Idle
    /\ stateStore.open
    /\ db.blocks = {}
    /\ stateStore' = OpenStore(ApplyGenesisBlockStore(stateStore.store, db))
    /\ numberOfValidators' = Len(InitDelegates)
    /\ events' = <<>>
    /\ outcome' = Outcome("applyGenesisBlock", genesisBlock, <<>>, "ok", 0, <<>>)
    /\ UNCHANGED <<db, cache, lastBlock, call, history>>
    /\ UNCHANGED rewardVars


(***************************************************************************)
(* The synchronous statements of saveBlock and removeBlock that follow the *)
(* awaited storage calls.  They run on a machine state m (cache, tip,      *)
(* emitted events, effects so far) in the order the lists give.            *)
(***************************************************************************)
Step(stmt, m, ctx) ==
    CASE stmt = "addBlockHeader" ->
            [m EXCEPT !.cache = AddBlockHeader(@, ctx.block.header),
                      !.order = Append(@, stmt)]
      [] stmt = "setLastBlock" ->
            [m EXCEPT !.lastBlock = ctx.tip,
                      !.order = Append(@, stmt)]
      [] stmt = "emit" ->
            [m EXCEPT !.events = Append(@, [name |-> ctx.name,
                                            block |-> ctx.block,
                                            accounts |-> ctx.accounts,
                                            seen |-> Seen(m.lastBlock, m.cache, ctx.db)]),
                      !.order = Append(@, stmt)]

RECURSIVE Exec(_, _, _)
Exec(stmts, m, ctx) ==
    IF stmts = <<>> THEN m
    ELSE Exec(Tail(stmts), Step(Head(stmts), m, ctx), ctx)

(***************************************************************************)
(* Chain.verifyBlockHeader: the check of previousBlockID.  The slot, the   *)
(* reward and the generator of a block are not part of this state.         *)
(***************************************************************************)
verifyPreviousBlockId(block, tip) == block.header.previousBlockID = tip.header.id

VerifyBlockHeader(block) == verifyPreviousBlockId(block, lastBlock)

\* The blocks a peer or a forger may hand to the node: any declared height,
\* any stored block as the previous block.
ReceivedBlocks ==
    {MakeBlock(h, p, BlockVersion) : h \in 1..MaxHeight, p \in StoredIDs(db)}

(***************************************************************************)
(* Chain.saveBlock                                                         *)
(***************************************************************************)
\* A saveBlock that emits before it has updated the cache and the tip.
SaveBlockTailEmitFirst == <<"emit", "addBlockHeader", "setLastBlock">>

\* A saveBlock that leaves the header cache alone.
SaveBlockTailNoHeader == <<"setLastBlock", "emit">>

\* A saveBlock that does not move the tip.
SaveBlockTailKeepsTip == <<"addBlockHeader", "emit">>

\* The statements after `await this.dataAccess.saveBlock(...)`.
SaveBlockTail == <<"addBlockHeader", "setLastBlock", "emit">>

\* What saveBlock receives: at start-up the genesis block with the store
\* applyGenesisBlock filled; afterwards a block verifyBlockHeader accepted.
SaveBlockInputs ==
    IF db.blocks = {}
    THEN IF stateStore.store = ApplyGenesisBlockStore(EmptyStateStore, db)
         THEN {genesisBlock} ELSE {}
    ELSE {b \in ReceivedBlocks : VerifyBlockHeader(b)}

\* A saveBlock that hands dataAccess.saveBlock another StateStore than its own.
SaveBlockAwaitOtherStore(block, ok) ==
    /\ call = Idle
    /\ Started
    /\ stateStore.open
    /\ Cardinality(db.blocks) < MaxBlocks
    /\ events' = <<>>
    /\ IF ok
       THEN /\ db' = DataAccessSaveBlock(db, block, EmptyStateStore)
            /\ call' = [op |-> "saveBlock", block |-> block]
            /\ outcome' = Outcome("saveBlock", block, Seen(lastBlock, cache, db), "pending",
                                  1, <<"dataAccess.saveBlock">>)
            /\ history' = [stage |-> "saving", block |-> block,
                           before |-> Restorable(lastBlock, db)]
            /\ UNCHANGED stateStore
       ELSE /\ call' = Idle
            /\ outcome' = Outcome("saveBlock", block, Seen(lastBlock, cache, db),
                                  "storage error", 1, <<>>)
            /\ history' = NoHistory
            /\ stateStore' = ClosedStore
            /\ UNCHANGED db
    /\ UNCHANGED <<cache, lastBlock, numberOfValidators>>
    /\ UNCHANGED rewardVars

\* The call up to the end of the awaited dataAccess.saveBlock, which commits
\* its batch (ok) or fails and makes saveBlock throw.
SaveBlockAwait(block, ok) ==
    /\ call = Idle
    /\ Started
    /\ stateStore.open
    /\ Cardinality(db.blocks) < MaxBlocks
    /\ events' = <<>>
    /\ IF ok
       THEN /\ db' = DataAccessSaveBlock(db, block, stateStore.store)
            /\ call' = [op |-> "saveBlock", block |-> block]
            /\ outcome' = Outcome("saveBlock", block, Seen(lastBlock, cache, db), "pending",
                                  1, <<"dataAccess.saveBlock">>)
            /\ history' = [stage |-> "saving", block |-> block,
                           before |-> Restorable(lastBlock, db)]
            /\ UNCHANGED stateStore
       ELSE /\ call' = Idle
            /\ outcome' = Outcome("saveBlock", block, Seen(lastBlock, cache, db),
                                  "storage error", 1, <<>>)
            /\ history' = NoHistory
            /\ stateStore' = ClosedStore
            /\ UNCHANGED db
    /\ UNCHANGED <<cache, lastBlock, numberOfValidators>>
    /\ UNCHANGED rewardVars

SaveBlock ==
    \E block \in SaveBlockInputs, ok \in BOOLEAN : SaveBlockAwait(block, ok)

\* The rest of saveBlock, run when the awaited call has resolved.
SaveBlockResume ==
    /\ call.op = "saveBlock"
    /\ LET m == Exec(SaveBlockTail,
                     [cache |-> cache, lastBlock |-> lastBlock,
                      events |-> <<>>, order |-> outcome.order],
                     [block |-> call.block, tip |-> call.block,
                      name |-> EVENT_NEW_BLOCK,
                      accounts |-> GetUpdated(stateStore.store), db |-> db])
       IN /\ cache' = m.cache
          /\ lastBlock' = m.lastBlock
          /\ events' = m.events
          /\ outcome' = [outcome EXCEPT !.result = "ok", !.order = m.order]
    /\ call' = Idle
    /\ stateStore' = ClosedStore
    /\ history' = [history EXCEPT !.stage = "saved"]
    /\ UNCHANGED <<db, numberOfValidators>>
    /\ UNCHANGED rewardVars


(***************************************************************************)
(* Chain.removeBlock                                                       *)
(***************************************************************************)
\* A removeBlock that does not move the tip, and one that emits first.
RemoveBlockTailNoTip == <<"emit">>
RemoveBlockTailEmitFirst == <<"emit", "setLastBlock">>

\* The statements after `await this.dataAccess.removeBlockHeader(...)`.
RemoveBlockTail == <<"setLastBlock", "emit">>

\* A block whose previous block no store holds.
orphanBlock ==
    MakeBlock(1, BlockID(GenesisHeight, <<>>, BlockVersion), BlockVersion)

\* What removeBlock receives: the tip, the genesis block, or a block the
\* store never held.
RemoveBlockInputs == {lastBlock, genesisBlock, orphanBlock}

\* A genesis test with the comparison negated.
IsGenesisNegated(block) == block.header.version # genesisBlock.header.version

\* A genesis test by id.
IsGenesisByID(block) == block.header.id = genesisBlock.header.id

\* The genesis test of removeBlock.
IsGenesis(block) == block.header.version = genesisBlock.header.version

\* A load that falls back to the genesis block instead of failing.
LoadSecondLastBlockOrGenesis(d, block, ok) ==
    IF ok /\ block.header.previousBlockID \in StoredIDs(d)
    THEN Some(GetBlockByID(d, block.header.previousBlockID))
    ELSE Some(genesisBlock)

\* try { secondLastBlock = await getBlockByID(previousBlockID) } catch: the
\* block loaded, or nothing when it is absent or the read fails (not ok).
LoadSecondLastBlock(d, block, ok) ==
    IF ok /\ block.header.previousBlockID \in StoredIDs(d)
    THEN Some(GetBlockByID(d, block.header.previousBlockID))
    ELSE None

\* The call up to the end of the awaited dataAccess.getBlockByID.
RemoveBlockLoad(block, ok) ==
    /\ call = Idle
    /\ Started
    /\ stateStore.open
    /\ events' = <<>>
    /\ IF IsGenesis(block)
       THEN /\ call' = Idle
            /\ outcome' = Outcome("removeBlock", block, Seen(lastBlock, cache, db),
                                  "Cannot delete genesis block", 0, <<>>)
            /\ stateStore' = ClosedStore
       ELSE IF LoadSecondLastBlock(db, block, ok) # None
       THEN /\ call' = [op |-> "removeBlock", stage |-> "deleteBlock",
                        block |-> block,
                        secondLastBlock |-> LoadSecondLastBlock(db, block, ok)[1]]
            /\ outcome' = Outcome("removeBlock", block, Seen(lastBlock, cache, db),
                                  "pending", 1, <<"getBlockByID">>)
            /\ UNCHANGED stateStore
       ELSE /\ call' = Idle
            /\ outcome' = Outcome("removeBlock", block, Seen(lastBlock, cache, db),
                                  "PreviousBlock is null", 1, <<>>)
            /\ stateStore' = ClosedStore
    /\ UNCHANGED <<db, cache, lastBlock, numberOfValidators, history>>
    /\ UNCHANGED rewardVars

RemoveBlock ==
    \E block \in RemoveBlockInputs, ok \in BOOLEAN : RemoveBlockLoad(block, ok)

\* The awaited dataAccess.deleteBlock: its batch commits (ok) or fails.
RemoveBlockDelete ==
    /\ call.op = "removeBlock"
    /\ call.stage = "deleteBlock"
    /\ \E ok \in BOOLEAN :
          IF ok
          THEN /\ db' = DataAccessDeleteBlock(db, call.block)
               /\ call' = [op |-> "removeBlock", stage |-> "removeBlockHeader",
                           block |-> call.block,
                           secondLastBlock |-> call.secondLastBlock,
                           updatedAccounts |-> RevertedAccounts(db, call.block)]
               /\ outcome' = [outcome EXCEPT !.accesses = @ + 1,
                                              !.order = Append(@, "deleteBlock")]
               /\ history' = IF history.stage = "saved" /\ history.block = call.block
                             THEN [history EXCEPT !.stage = "removing"]
                             ELSE NoHistory
               /\ UNCHANGED stateStore
          ELSE /\ call' = Idle
               /\ outcome' = [outcome EXCEPT !.result = "storage error",
                                              !.accesses = @ + 1]
               /\ stateStore' = ClosedStore
               /\ UNCHANGED <<db, history>>
    /\ UNCHANGED <<cache, lastBlock, numberOfValidators, events>>
    /\ UNCHANGED rewardVars

\* The awaited dataAccess.removeBlockHeader and the rest of removeBlock.  The
\* header leaves the cache; when the cache then needs a refill the store is
\* read, and a failed read makes removeBlock throw here.
RemoveBlockResume ==
    /\ call.op = "removeBlock"
    /\ call.stage = "removeBlockHeader"
    /\ \E ok \in BOOLEAN :
          LET refill == NeedsRefill(db, cache, call.block.header)
              accesses == outcome.accesses + (IF refill THEN 1 ELSE 0)
          IN IF refill /\ ~ok
             THEN /\ cache' = CacheRemove(cache, call.block.header.id)
                  /\ outcome' = [outcome EXCEPT
                                    !.result = "storage error",
                                    !.accesses = accesses,
                                    !.order = Append(@, "removeBlockHeader")]
                  /\ history' = NoHistory
                  /\ UNCHANGED <<lastBlock, events>>
             ELSE LET m == Exec(RemoveBlockTail,
                                [cache |-> RemoveBlockHeader(db, cache, call.block.header),
                                 lastBlock |-> lastBlock,
                                 events |-> <<>>,
                                 order |-> Append(outcome.order, "removeBlockHeader")],
                                [block |-> call.block, tip |-> call.secondLastBlock,
                                 name |-> EVENT_DELETE_BLOCK,
                                 accounts |-> call.updatedAccounts, db |-> db])
                  IN /\ cache' = m.cache
                     /\ lastBlock' = m.lastBlock
                     /\ events' = m.events
                     /\ outcome' = [outcome EXCEPT !.result = "ok",
                                                    !.accesses = accesses,
                                                    !.order = m.order]
                     /\ history' = IF history.stage = "removing"
                                   THEN [history EXCEPT !.stage = "removed"]
                                   ELSE NoHistory
    /\ call' = Idle
    /\ stateStore' = ClosedStore
    /\ UNCHANGED <<db, numberOfValidators>>
    /\ UNCHANGED rewardVars

(***************************************************************************)
(* Chain.setValidators                                                     *)
(***************************************************************************)
\* A bootstrap period of one round.
_getLastBootstrapHeightOneRound ==
    numberOfValidators + genesisBlock.header.height

\* A bootstrap period counted from the persisted validator set.
_getLastBootstrapHeightPersisted ==
    (IF db.consensus = None THEN 0
     ELSE Len(Decode(validatorsSchema, db.consensus[1]))) * InitRounds
        + genesisBlock.header.height

_getLastBootstrapHeight ==
    numberOfValidators * InitRounds + genesisBlock.header.height

\* The candidate lists the consensus module may hand over.
ValidatorCandidates ==
    { <<[address |-> "a2", isConsensusParticipant |-> TRUE],
        [address |-> "a1", isConsensusParticipant |-> FALSE]>> }

\* previousValidators.find(pv => pv.address.equals(address)): the positions.
FindValidator(previousValidators, address) ==
    {i \in 1..Len(previousValidators) : previousValidators[i].address = address}

\* A rotation that treats every candidate as new.
NextValidatorSetAllNew(validators, previousValidators, height) ==
    [i \in 1..Len(validators) |->
        [address |-> validators[i].address,
         isConsensusParticipant |-> validators[i].isConsensusParticipant,
         minActiveHeight |-> height + 1]]

NextValidatorSet(validators, previousValidators, height) ==
    [i \in 1..Len(validators) |->
        LET found == FindValidator(previousValidators, validators[i].address)
        IN [address |-> validators[i].address,
            isConsensusParticipant |-> validators[i].isConsensusParticipant,
            minActiveHeight |->
                IF found # {}
                THEN previousValidators[CHOOSE j \in found :
                                            \A k \in found : j <= k].minActiveHeight
                ELSE height + 1]]

\* The arguments of a setValidators call, and what the engine and the
\* StateStore held when it was called.
SetValidatorsArgs(validators, height) == [validators |-> validators, height |-> height]

SetValidatorsStarted ==
    [stateStore |-> stateStore, numberOfValidators |-> numberOfValidators,
     validatorsBuffer |-> ConsensusGet(stateStore.store, db)]

SetValidatorsAt(validators, height) ==
    /\ call = Idle
    /\ Started
    /\ stateStore.open
    /\ db.blocks # {}
    /\ IF _getLastBootstrapHeight > height
       THEN /\ events' = <<>>
            /\ outcome' = Outcome("setValidators", SetValidatorsArgs(validators, height),
                                  SetValidatorsStarted, "skipped", 0, <<>>)
            /\ UNCHANGED stateStore
       ELSE LET validatorsBuffer == ConsensusGet(stateStore.store, db)
            IN IF validatorsBuffer = None
               THEN /\ events' = <<>>
                    /\ outcome' = Outcome("setValidators",
                                          SetValidatorsArgs(validators, height),
                                          SetValidatorsStarted,
                                          "Previous validator set must exist", 0, <<>>)
                    /\ UNCHANGED stateStore
               ELSE LET previousValidators ==
                            Decode(validatorsSchema, validatorsBuffer[1])
                        nextValidatorSet ==
                            NextValidatorSet(validators, previousValidators, height)
                        next == ConsensusSet(stateStore.store, db,
                                    Encode(validatorsSchema, nextValidatorSet))
                    IN /\ stateStore' = OpenStore(next)
                       /\ events' = <<[name |-> EVENT_VALIDATORS_CHANGED,
                                       validators |-> nextValidatorSet,
                                       seen |-> Seen(lastBlock, cache, db)]>>
                       /\ outcome' = Outcome("setValidators",
                                             SetValidatorsArgs(validators, height),
                                             SetValidatorsStarted, "ok", 0,
                                             <<"consensus.set", "emit">>)
    /\ UNCHANGED <<db, cache, lastBlock, numberOfValidators, call, history>>
    /\ UNCHANGED rewardVars

SetValidators ==
    \E validators \in ValidatorCandidates, height \in 1..MaxHeight :
        SetValidatorsAt(validators, height)

(***************************************************************************)
(* Start-up: the constructor on a store that already exists, Chain.init    *)
(* and Chain.genesisBlockExist.                                            *)
(***************************************************************************)
\* Chain.getValidators(): the decoded list, or [] when the key is absent.
GetValidators(d) ==
    LET validatorsBuffer == d.consensus
    IN IF validatorsBuffer = None THEN <<>>
       ELSE Decode(validatorsSchema, validatorsBuffer[1])

\* The node stops and starts again: the constructor runs on the store as it
\* is, with the same genesis block.
Restart ==
    /\ call = Idle
    /\ Started
    /\ db.blocks # {}
    /\ cache' = <<>>
    /\ lastBlock' = genesisBlock
    /\ numberOfValidators' = -1
    /\ stateStore' = ClosedStore
    /\ events' = <<>>
    /\ outcome' = NoOutcome
    /\ history' = NoHistory
    /\ UNCHANGED <<db, call>>
    /\ UNCHANGED rewardVars

\* dataAccess.getLastBlock(): the stored block of the greatest height.
GetLastBlock(d) ==
    CHOOSE b \in d.blocks : \A c \in d.blocks : c.header.height <= b.header.height

\* dataAccess.getBlockHeadersByHeightBetween(fromHeight, toHeight)
GetBlockHeadersByHeightBetween(d, fromHeight, toHeight) ==
    {b.header : b \in {x \in d.blocks :
                          fromHeight <= x.header.height /\ x.header.height <= toHeight}}

\* [...blockHeaders].sort((a, b) => a.height - b.height)
RECURSIVE SortedByHeight(_)
SortedByHeight(headers) ==
    IF headers = {} THEN <<>>
    ELSE LET first == CHOOSE h \in headers : \A g \in headers : h.height <= g.height
         IN <<first>> \o SortedByHeight(headers \ {first})

RECURSIVE AddBlockHeaders(_, _)
AddBlockHeaders(c, headers) ==
    IF headers = <<>> THEN c
    ELSE AddBlockHeaders(AddBlockHeader(c, Head(headers)), Tail(headers))

\* The default maximum of the header cache, which is the maximum the
\* constructor was given.
DEFAULT_MAX_BLOCK_HEADER_CACHE == maxBlockHeaderCache

\* A window that starts one height later.
CacheWindowOneShorter(storageLastBlock) ==
    [fromHeight |-> IF storageLastBlock.header.height - DEFAULT_MAX_BLOCK_HEADER_CACHE + 1 > 0
                    THEN storageLastBlock.header.height - DEFAULT_MAX_BLOCK_HEADER_CACHE + 1
                    ELSE 0,
     toHeight |-> storageLastBlock.header.height]

\* The heights _cacheBlockHeaders asks the store for:
\* Math.max(height - DEFAULT_MAX_BLOCK_HEADER_CACHE, 0) to height.
CacheWindow(storageLastBlock) ==
    [fromHeight |-> IF storageLastBlock.header.height - DEFAULT_MAX_BLOCK_HEADER_CACHE > 0
                    THEN storageLastBlock.header.height - DEFAULT_MAX_BLOCK_HEADER_CACHE
                    ELSE 0,
     toHeight |-> storageLastBlock.header.height]

\* Chain._cacheBlockHeaders(storageLastBlock), its read succeeding.
_cacheBlockHeaders(d, c, storageLastBlock) ==
    LET window == CacheWindow(storageLastBlock)
    IN AddBlockHeaders(c, SortedByHeight(
                              GetBlockHeadersByHeightBetween(d, window.fromHeight,
                                                             window.toHeight)))

\* One statement of init on m: the engine's fields, the locals
\* storageLastBlock and validators, the height ranges read from the store,
\* the result so far and the statements run.  The storage read named by
\* fail fails.
InitStep(stmt, m, d, fail) ==
    LET done == [m EXCEPT !.order = Append(@, stmt)]
    IN CASE stmt = "getLastBlock" ->
               IF d.blocks = {} \/ fail = stmt
               THEN [done EXCEPT !.result = "Failed to load last block"]
               ELSE [done EXCEPT !.storageLastBlock = Some(GetLastBlock(d))]
         [] stmt = "_cacheBlockHeaders" ->
               IF m.storageLastBlock[1].header.height = genesisBlock.header.height
               THEN m
               ELSE IF fail = stmt
               THEN [done EXCEPT !.result = "storage error",
                                 !.reads = Append(@, CacheWindow(m.storageLastBlock[1]))]
               ELSE [done EXCEPT !.cache = _cacheBlockHeaders(d, m.cache,
                                                              m.storageLastBlock[1]),
                                 !.reads = Append(@, CacheWindow(m.storageLastBlock[1]))]
         [] stmt = "getValidators" ->
               IF fail = stmt
               THEN [done EXCEPT !.result = "storage error"]
               ELSE [done EXCEPT !.validators = GetValidators(d)]
         [] stmt = "setNumberOfValidators" ->
               [done EXCEPT !.numberOfValidators = Len(m.validators)]
         [] stmt = "setLastBlock" ->
               [done EXCEPT !.lastBlock = m.storageLastBlock[1]]

RECURSIVE RunInit(_, _, _, _)
RunInit(stmts, m, d, fail) ==
    IF stmts = <<>> \/ m.result # "ok" THEN m
    ELSE RunInit(Tail(stmts), InitStep(Head(stmts), m, d, fail), d, fail)

\* An init that assigns the tip as soon as the last block is loaded.
ChainInitStatementsTipFirst ==
    <<"getLastBlock", "setLastBlock", "_cacheBlockHeaders", "getValidators",
      "setNumberOfValidators">>

\* The statements of init, in the order of the code.
ChainInitStatements ==
    <<"getLastBlock", "_cacheBlockHeaders", "getValidators", "setNumberOfValidators",
      "setLastBlock">>

\* The storage reads of init that may fail.
InitFailures == {"none", "getLastBlock", "_cacheBlockHeaders", "getValidators"}

\* chain.init(), called at start-up while the tip is the constructor's.
ChainInit ==
    /\ call = Idle
    /\ lastBlock = genesisBlock
    /\ \E fail \in InitFailures :
          LET m == RunInit(ChainInitStatements,
                           [cache |-> cache, lastBlock |-> lastBlock,
                            numberOfValidators |-> numberOfValidators,
                            storageLastBlock |-> None, validators |-> <<>>,
                            reads |-> <<>>, result |-> "ok", order |-> <<>>],
                           db, fail)
          IN /\ cache' = m.cache
             /\ lastBlock' = m.lastBlock
             /\ numberOfValidators' = m.numberOfValidators
             /\ outcome' = Outcome("init", [fail |-> fail, reads |-> m.reads],
                                   [lastBlock |-> lastBlock, cache |-> cache, db |-> db,
                                    numberOfValidators |-> numberOfValidators],
                                   m.result, Len(m.order), m.order)
    /\ events' = <<>>
    /\ history' = NoHistory
    /\ UNCHANGED <<db, stateStore, call>>
    /\ UNCHANGED rewardVars

\* A genesis block of another chain.
otherGenesisBlock == MakeBlock(GenesisHeight + 1, <<>>, GenesisVersion)

GenesisCandidates == {genesisBlock, otherGenesisBlock}

\* One read of genesisBlockExist: the header found, nothing on NotFound, or
\* another storage failure.
ReadHeader(found, header, failed) ==
    IF failed THEN [error |-> TRUE, header |-> None]
    ELSE [error |-> FALSE, header |-> IF found THEN Some(header) ELSE None]

\* A genesisBlockExist that reports a store of another chain as empty.
GenesisBlockExistResultNoMismatch(matchingGenesisBlock, lastBlockHeader) ==
    IF matchingGenesisBlock = None THEN "false" ELSE "true"

\* The decision of genesisBlockExist once both reads have returned.
GenesisBlockExistResult(matchingGenesisBlock, lastBlockHeader) ==
    IF lastBlockHeader # None /\ matchingGenesisBlock = None
    THEN "Genesis block does not match"
    ELSE IF lastBlockHeader = None /\ matchingGenesisBlock = None
    THEN "false"
    ELSE "true"

GenesisBlockExistFailures == {"none", "getBlockHeaderByID", "getLastBlockHeader"}

\* chain.genesisBlockExist(genesisBlock), called at start-up.
GenesisBlockExist ==
    /\ call = Idle
    /\ numberOfValidators = -1
    /\ \E candidate \in GenesisCandidates, fail \in GenesisBlockExistFailures :
          LET matching == ReadHeader(candidate.header.id \in StoredIDs(db),
                                     candidate.header, fail = "getBlockHeaderByID")
              last == ReadHeader(db.blocks # {},
                                 IF db.blocks # {} THEN GetLastBlock(db).header ELSE None,
                                 fail = "getLastBlockHeader")
              result == IF matching.error \/ last.error THEN "storage error"
                        ELSE GenesisBlockExistResult(matching.header, last.header)
          IN outcome' = Outcome("genesisBlockExist",
                                [candidate |-> candidate, fail |-> fail],
                                [lastBlock |-> lastBlock, cache |-> cache, db |-> db,
                                 numberOfValidators |-> numberOfValidators],
                                result,
                                IF matching.error THEN 1 ELSE 2,
                                IF matching.error THEN <<"getBlockHeaderByID">>
                                ELSE <<"getBlockHeaderByID", "getLastBlockHeader">>)
    /\ events' = <<>>
    /\ UNCHANGED <<db, cache, lastBlock, numberOfValidators, stateStore, call, history>>
    /\ UNCHANGED rewardVars

(***************************************************************************)
(* The chain engine.                                                       *)
(***************************************************************************)
Next ==
    \/ NewStateStore
    \/ StateStoreAccountSet
    \/ ApplyGenesisBlock
    \/ SaveBlock
    \/ SaveBlockResume
    \/ RemoveBlock
    \/ RemoveBlockDelete
    \/ RemoveBlockResume
    \/ SetValidators

Spec == Init /\ [][Next]_vars

\* The engine with reducers that also read accounts.
NextStore ==
    \/ NewStateStore
    \/ StateStoreAccountSet
    \/ StateStoreAccountGet
    \/ ApplyGenesisBlock
    \/ SaveBlock
    \/ SaveBlockResume
    \/ RemoveBlock
    \/ RemoveBlockDelete
    \/ RemoveBlockResume
    \/ SetValidators

SpecStore == Init /\ [][NextStore]_vars

(***************************************************************************)
(* Start-up on its own: the node starts on an empty store, applies and     *)
(* saves the genesis block, saves blocks and rotates validators, stops and *)
(* starts again.                                                           *)
(***************************************************************************)
NextStart ==
    \/ NewStateStore
    \/ ApplyGenesisBlock
    \/ SaveBlock
    \/ SaveBlockResume
    \/ SetValidators
    \/ Restart
    \/ ChainInit
    \/ GenesisBlockExist

SpecStart == Init /\ [][NextStart]_vars

(***************************************************************************)
(* Chain.calculateDefaultReward on its own: the constructor is given the   *)
(* default schedule or a small one, and the reward is asked at heights     *)
(* around the schedule's boundaries.                                       *)
(***************************************************************************)
SmallMilestones == {<<5>>, <<5, 3>>, <<5, 3, 3>>, <<5, 3, 1>>}

RewardConstants ==
    {DefaultConstants} \cup
    [rewardDistance : 1..MaxDistance,
     rewardOffset : 0..MaxOffset,
     rewardMilestones : SmallMilestones]

\* The boundaries of the default schedule: the offset and the starts of the
\* runs, each with the height before it, and heights far on either side.
DefaultBoundaries ==
    {DefaultRewardOffset + k * DefaultRewardDistance - j :
        k \in 0..Len(DefaultRewardMilestones), j \in 0..1}

RewardHeights ==
    (0..MaxRewardHeight) \cup {100, DefaultRewardOffset + 1} \cup DefaultBoundaries

InitReward ==
    /\ InitChain
    /\ constants \in RewardConstants
    /\ rewardCalls = <<>>

CalculateDefaultReward ==
    /\ \E height \in RewardHeights :
          LET this == [height |-> height,
                       reward |-> ChainCalculateDefaultReward(height)]
          IN rewardCalls' = IF rewardCalls = <<>> THEN <<this>>
                            ELSE <<rewardCalls[Len(rewardCalls)], this>>
    /\ UNCHANGED <<chainVars, constants>>

NextReward == CalculateDefaultReward

SpecReward == InitReward /\ [][NextReward]_vars


(***************************************************************************)
(* Block headers in full.  Beside height, previousBlockID and version a    *)
(* header carries its timestamp, its generator (the address of the         *)
(* generator public key), its declared reward and its seed reveal.  What   *)
(* the validator library, the signature check and the payload check find   *)
(* in a block is a property of its bytes: the block carries it as          *)
(* schemaErrors, assetErrors, signatureValid and payloadValid.  The seed   *)
(* reveal is valid or not relative to the generator's earlier reveals,     *)
(* which the StateStore's header window holds: seedRevealValid.            *)
(***************************************************************************)
\* Slots 0..MaxSlot are looked at.
MaxSlot == 3

\* genesisConfig.blockTime; the genesis block opens slot 0.
blockTime == 10
GenesisTimestamp == 0

\* Slots.getSlotNumber(timestamp)
getSlotNumber(timestamp) == (timestamp - GenesisTimestamp) \div blockTime

\* The first and the last second of every slot looked at.
Timestamps ==
    {GenesisTimestamp + k * blockTime + j : k \in 0..MaxSlot, j \in {0, blockTime - 1}}

FullBlock(height, previousBlockID, version, timestamp, generator, reward, seedRevealValid) ==
    [header |-> [id |-> <<height, previousBlockID, version, timestamp, generator, reward,
                          seedRevealValid>>,
                 height |-> height,
                 previousBlockID |-> previousBlockID,
                 version |-> version,
                 timestamp |-> timestamp,
                 generator |-> generator,
                 reward |-> reward,
                 seedRevealValid |-> seedRevealValid],
     schemaErrors |-> 0,
     assetErrors |-> 0,
     signatureValid |-> TRUE,
     payloadValid |-> TRUE]

\* The genesis block in full: nobody generated it and it declares no reward.
fullGenesisBlock ==
    FullBlock(GenesisHeight, <<>>, GenesisVersion, GenesisTimestamp, "none", 0, TRUE)

(***************************************************************************)
(* Chain.validateBlockHeader: the structural checks, in the order of the   *)
(* code.  Each check throws or returns; the first that throws ends the     *)
(* call.  The checks themselves are the validator library's and the        *)
(* imported validate functions'.                                           *)
(***************************************************************************)
\* validateReward(block, reward): the declared reward is the one given.
validateReward(block, reward) == block.header.reward = reward

\* A validateBlockHeader that checks the reward against the next height's.
ValidateBlockHeaderRewardNextHeight(block) ==
    ChainCalculateDefaultReward(block.header.height + 1)

\* A validateBlockHeader that checks the reward against the expected one:
\* nothing when the seed reveal is invalid.
ValidateBlockHeaderRewardExpected(block) ==
    IF block.header.seedRevealValid
    THEN ChainCalculateDefaultReward(block.header.height) ELSE 0

\* this.calculateDefaultReward(block.header.height), the second argument of
\* validateReward.
ValidateBlockHeaderReward(block) ==
    ChainCalculateDefaultReward(block.header.height)

\* One check of validateBlockHeader: "ok" or the error it throws.
ValidateCheck(check, block) ==
    CASE check = "blockHeaderSchema" ->
            IF block.schemaErrors # 0 THEN "LiskValidationError" ELSE "ok"
      [] check = "assetSchema" ->
            IF block.assetErrors # 0 THEN "LiskValidationError" ELSE "ok"
      [] check = "validateSignature" ->
            IF ~block.signatureValid THEN "Invalid block signature" ELSE "ok"
      [] check = "validateReward" ->
            IF ~validateReward(block, ValidateBlockHeaderReward(block))
            THEN "Invalid block reward" ELSE "ok"
      [] check = "validateBlockProperties" ->
            IF ~block.payloadValid THEN "Invalid block properties" ELSE "ok"

ValidateBlockHeaderChecks ==
    <<"blockHeaderSchema", "assetSchema", "validateSignature", "validateReward",
      "validateBlockProperties">>

\* Runs the checks in order on m = [result, order]; stops at the first error.
RECURSIVE RunValidate(_, _, _)
RunValidate(checks, block, m) ==
    IF checks = <<>> \/ m.result # "ok" THEN m
    ELSE RunValidate(Tail(checks), block,
                     [result |-> ValidateCheck(Head(checks), block),
                      order |-> Append(m.order, Head(checks))])

\* A validateBlockHeader that makes the block the tip.
ValidateBlockHeaderWritesTip == <<"setLastBlock">>

\* The statements of validateBlockHeader that assign to the engine: none.
ValidateBlockHeaderWrites == <<>>

(***************************************************************************)
(* Chain.verifyBlockHeader: the contextual checks, in the order of the     *)
(* code.  The checks are the imported verify / validate functions', each   *)
(* given the arguments the code passes it.                                 *)
(***************************************************************************)
\* isValidSeedReveal(blockHeader, stateStore, numberOfValidators)
isValidSeedReveal(header, store, n) == header.seedRevealValid

\* Chain.calculateExpectedReward(blockHeader, stateStore)
ChainCalculateExpectedReward(header, store) ==
    LET defaultReward == ChainCalculateDefaultReward(header.height)
        isValid == isValidSeedReveal(header, store, numberOfValidators)
    IN IF isValid THEN defaultReward ELSE 0

\* validateBlockSlot(block, lastBlock, slots): the block's slot is after the
\* tip's and not after the slot of the current time.
validateBlockSlot(block, tip, now) ==
    LET blockSlotNumber == getSlotNumber(block.header.timestamp)
        lastBlockSlotNumber == getSlotNumber(tip.header.timestamp)
    IN ~(blockSlotNumber > getSlotNumber(now) \/ blockSlotNumber <= lastBlockSlotNumber)

\* verifyReward(blockHeader, stateStore, numberOfValidators).  It is given
\* no reward schedule: what it can hold the declared reward to is the zero
\* of an invalid seed reveal.
verifyReward(header, store, n) ==
    ~(~isValidSeedReveal(header, store, n) /\ header.reward # 0)

\* The validator a list assigns to a slot: round-robin, nothing when the
\* list is empty.
ValidatorOfSlot(validators, slot) ==
    IF validators = <<>> THEN None
    ELSE Some(validators[(slot % Len(validators)) + 1])

\* verifyBlockGenerator(blockHeader, slots, stateStore): the validator list
\* is read through the StateStore.
verifyBlockGenerator(header, store, d) ==
    LET validatorsBuffer == ConsensusGet(store, d)
        expected == IF validatorsBuffer = None THEN None
                    ELSE ValidatorOfSlot(Decode(validatorsSchema, validatorsBuffer[1]),
                                         getSlotNumber(header.timestamp))
    IN expected # None /\ expected[1].address = header.generator

\* One check of verifyBlockHeader: "ok" or the error it throws.
VerifyCheck(check, block, store, now) ==
    CASE check = "verifyPreviousBlockId" ->
            IF ~verifyPreviousBlockId(block, lastBlock)
            THEN "Invalid previous block" ELSE "ok"
      [] check = "validateBlockSlot" ->
            IF ~validateBlockSlot(block, lastBlock, now)
            THEN "Invalid block timestamp" ELSE "ok"
      [] check = "verifyReward" ->
            IF ~verifyReward(block.header, store, numberOfValidators)
            THEN "Invalid block reward" ELSE "ok"
      [] check = "verifyBlockGenerator" ->
            IF ~verifyBlockGenerator(block.header, store, db)
            THEN "Failed to verify generator" ELSE "ok"

\* A verifyBlockHeader that looks at the slot before the previous block.
VerifyBlockHeaderChecksSlotFirst ==
    <<"validateBlockSlot", "verifyPreviousBlockId", "verifyReward", "verifyBlockGenerator">>

VerifyBlockHeaderChecks ==
    <<"verifyPreviousBlockId", "validateBlockSlot", "verifyReward", "verifyBlockGenerator">>

RECURSIVE RunVerify(_, _, _, _, _)
RunVerify(checks, block, store, now, m) ==
    IF checks = <<>> \/ m.result # "ok" THEN m
    ELSE RunVerify(Tail(checks), block, store, now,
                   [result |-> VerifyCheck(Head(checks), block, store, now),
                    order |-> Append(m.order, Head(checks))])

(***************************************************************************)
(* Chain.getValidator on the persisted validator list.                     *)
(***************************************************************************)
\* A getValidator that indexes by the timestamp instead of the slot.
ChainGetValidatorByTimestamp(d, timestamp) ==
    ValidatorOfSlot(GetValidators(d), timestamp)

\* Chain.getValidator(timestamp): validators[currentSlot % validators.length]
\* (undefined, here None, when the list is empty).
ChainGetValidator(d, timestamp) ==
    LET validators == GetValidators(d)
        currentSlot == getSlotNumber(timestamp)
    IN ValidatorOfSlot(validators, currentSlot)

(***************************************************************************)
(* The header checks on their own: an engine that has started on a store   *)
(* holding the genesis block, or the genesis block and two blocks of which *)
(* the second rotated the validators, is handed candidate blocks.  The     *)
(* stored states are built with the operations that produce them.          *)
(***************************************************************************)
HeaderConstants ==
    {[rewardDistance |-> 1, rewardOffset |-> o, rewardMilestones |-> <<5, 3, 3>>] :
        o \in {0, MaxOffset}}

\* The rewards a candidate may declare.
HeaderRewards == {0, 3, 5}

headerBlock1 ==
    FullBlock(1, fullGenesisBlock.header.id, BlockVersion,
              GenesisTimestamp + blockTime, "a1", ChainCalculateDefaultReward(1), TRUE)

headerBlock2 ==
    FullBlock(2, headerBlock1.header.id, BlockVersion,
              GenesisTimestamp + 2 * blockTime, "a1", ChainCalculateDefaultReward(2), TRUE)

dbAfterGenesis ==
    DataAccessSaveBlock(EmptyDB, fullGenesisBlock,
                        ApplyGenesisBlockStore(EmptyStateStore, EmptyDB))

dbAfterBlock1 == DataAccessSaveBlock(dbAfterGenesis, headerBlock1, EmptyStateStore)

\* The StateStore of the second block: setValidators at its height.
rotationStore ==
    ConsensusSet(EmptyStateStore, dbAfterBlock1,
        Encode(validatorsSchema,
               NextValidatorSet(CHOOSE v \in ValidatorCandidates : Len(v) = 2,
                                GetValidators(dbAfterBlock1),
                                headerBlock2.header.height)))

dbAfterBlock2 == DataAccessSaveBlock(dbAfterBlock1, headerBlock2, rotationStore)

HeaderChains ==
    {[db |-> dbAfterGenesis,
      cache |-> AddBlockHeader(<<>>, fullGenesisBlock.header),
      lastBlock |-> fullGenesisBlock],
     [db |-> dbAfterBlock2,
      cache |-> AddBlockHeader(AddBlockHeader(AddBlockHeader(<<>>,
                    fullGenesisBlock.header), headerBlock1.header), headerBlock2.header),
      lastBlock |-> headerBlock2]}

\* What the engine holds when a header check is called, and the time.
HeaderStarted(now) ==
    [lastBlock |-> lastBlock, cache |-> cache, db |-> db,
     numberOfValidators |-> numberOfValidators, now |-> now]

\* Candidates for validateBlockHeader: any height, any declared reward, any
\* seed reveal, any finding of the schema, signature and payload checks.
ValidateInputs ==
    {[FullBlock(h, lastBlock.header.id, BlockVersion,
                lastBlock.header.timestamp + blockTime, "a1", r, sv)
        EXCEPT !.schemaErrors = e[1], !.assetErrors = e[2],
               !.signatureValid = v[1], !.payloadValid = v[2]] :
        h \in 1..(MaxHeight + 1), r \in HeaderRewards, sv \in BOOLEAN,
        e \in {0, 1} \X {0, 1}, v \in BOOLEAN \X BOOLEAN}

\* Candidates for verifyBlockHeader: on the tip or on the tip's parent, in
\* any slot, by any generator, with any declared reward and seed reveal.
VerifyInputs ==
    {FullBlock(h, p, BlockVersion, t, g, r, sv) :
        h \in 1..(MaxHeight + 1),
        p \in {lastBlock.header.id, lastBlock.header.previousBlockID},
        t \in Timestamps, g \in Addresses, r \in HeaderRewards, sv \in BOOLEAN}

\* The current time: the start of a slot, not before the tip's slot.
Clock ==
    {GenesisTimestamp + k * blockTime :
        k \in getSlotNumber(lastBlock.header.timestamp)..MaxSlot}

\* The calls the engine may be handed, with their arguments.
HeaderCalls ==
    {[op |-> "validateBlockHeader", block |-> b] : b \in ValidateInputs}
    \cup {[op |-> "verifyBlockHeader", block |-> b, now |-> t] :
            b \in VerifyInputs, t \in Clock}
    \cup {[op |-> "getValidator", timestamp |-> t] : t \in Timestamps}

\* The engine after start-up, a fresh StateStore, and one call to make.
InitHeader ==
    /\ constants \in HeaderConstants
    /\ \E c \in HeaderChains :
          /\ db = c.db
          /\ cache = c.cache
          /\ lastBlock = c.lastBlock
    /\ numberOfValidators = Len(InitDelegates)
    /\ stateStore = OpenStore(EmptyStateStore)
    /\ call \in HeaderCalls
    /\ events = <<>>
    /\ outcome = NoOutcome
    /\ history = NoHistory
    /\ rewardCalls = <<>>

ValidateBlockHeader ==
    /\ call.op = "validateBlockHeader"
    /\ LET block == call.block
           r == RunValidate(ValidateBlockHeaderChecks, block,
                            [result |-> "ok", order |-> <<>>])
           m == Exec(ValidateBlockHeaderWrites,
                     [cache |-> cache, lastBlock |-> lastBlock,
                      events |-> <<>>, order |-> <<>>],
                     [block |-> block, tip |-> block])
       IN /\ outcome' = Outcome("validateBlockHeader", block, HeaderStarted(0),
                                r.result, 0, r.order)
          /\ cache' = m.cache
          /\ lastBlock' = m.lastBlock
          /\ events' = m.events
    /\ call' = Idle
    /\ UNCHANGED <<db, numberOfValidators, stateStore, history>>
    /\ UNCHANGED rewardVars

VerifyBlockHeaderCall ==
    /\ call.op = "verifyBlockHeader"
    /\ stateStore.open
    /\ LET r == RunVerify(VerifyBlockHeaderChecks, call.block, stateStore.store,
                          call.now, [result |-> "ok", order |-> <<>>])
       IN outcome' = Outcome("verifyBlockHeader", call.block, HeaderStarted(call.now),
                             r.result, 1, r.order)
    /\ call' = Idle
    /\ events' = <<>>
    /\ UNCHANGED <<db, cache, lastBlock, numberOfValidators, stateStore, history>>
    /\ UNCHANGED rewardVars

\* chain.getValidator(timestamp) on the persisted list.
GetValidator ==
    /\ call.op = "getValidator"
    /\ outcome' = Outcome("getValidator", call.timestamp, HeaderStarted(0),
                          ChainGetValidator(db, call.timestamp), 1, <<>>)
    /\ call' = Idle
    /\ events' = <<>>
    /\ UNCHANGED <<db, cache, lastBlock, numberOfValidators, stateStore, history>>
    /\ UNCHANGED rewardVars

NextHeader ==
    \/ ValidateBlockHeader
    \/ VerifyBlockHeaderCall
    \/ GetValidator

SpecHeader == InitHeader /\ [][NextHeader]_vars


(***************************************************************************)
(* The proof-of-misbehavior transaction asset (dpos module, asset id 3,    *)
(* 'reportDelegateMisbehavior').  The asset's implementation is modelled   *)
(* from its specification and from its unit test.  A block header of the   *)
(* asset is its id, its generator's public key, its height, the two BFT    *)
(* heights of its asset, and whether its signature verifies against the    *)
(* network identifier.                                                     *)
(***************************************************************************)
MaxPomHeight == 2

PomHeader(id, generator, height, prevoted, forged, signed) ==
    [id |-> id, generatorPublicKey |-> generator, height |-> height,
     asset |-> [maxHeightPrevoted |-> prevoted,
                maxHeightPreviouslyForged |-> forged],
     signatureValid |-> signed]

\* createFakeBlockHeader({ generatorPublicKey }): a header of its own id.
createFakeBlockHeader(id, generator) == PomHeader(id, generator, 0, 0, 0, TRUE)

GeneratorMismatch == "GeneratorPublicKey of each BlockHeader should match."
NoContradiction == "BlockHeaders are identical. No contradiction detected."
NotContradicting == "BlockHeaders are not contradicting as per BFT violation rules."

\* The BFT contradiction conditions between the two headers of an asset.
SameHeightOtherPrevoted(header1, header2) ==
    /\ header1.height = header2.height
    /\ header1.asset.maxHeightPrevoted # header2.asset.maxHeightPrevoted

HigherWithEqualPrevoted(header1, header2) ==
    /\ header1.height > header2.height
    /\ header1.asset.maxHeightPrevoted = header2.asset.maxHeightPrevoted

AbovePreviouslyForged(header1, header2) ==
    header1.height > header2.asset.maxHeightPreviouslyForged

HigherPrevoted(header1, header2) ==
    header1.asset.maxHeightPrevoted > header2.asset.maxHeightPrevoted

IsContradictingSameHeightOnly(header1, header2) ==
    SameHeightOtherPrevoted(header1, header2)

IsContradicting(header1, header2) ==
    \/ SameHeightOtherPrevoted(header1, header2)
    \/ HigherWithEqualPrevoted(header1, header2)
    \/ AbovePreviouslyForged(header1, header2)
    \/ HigherPrevoted(header1, header2)

\* One check of validate: the error it throws, or "ok".
PomValidateCheck(check, asset) ==
    CASE check = "generatorPublicKey" ->
            IF asset.header1.generatorPublicKey # asset.header2.generatorPublicKey
            THEN GeneratorMismatch ELSE "ok"
      [] check = "identical" ->
            IF asset.header1.id = asset.header2.id
            THEN NoContradiction ELSE "ok"
      [] check = "contradiction" ->
            IF ~IsContradicting(asset.header1, asset.header2)
            THEN NotContradicting ELSE "ok"

\* The checks in order, up to the first that throws.
RECURSIVE RunPomValidate(_, _, _)
RunPomValidate(checks, asset, m) ==
    IF checks = <<>> \/ m.result # "ok" THEN m
    ELSE RunPomValidate(Tail(checks), asset,
                        [result |-> PomValidateCheck(Head(checks), asset),
                         order |-> Append(m.order, Head(checks))])

PomValidateChecksIdenticalFirst == <<"identical", "generatorPublicKey", "contradiction">>

PomValidateChecks == <<"generatorPublicKey", "identical", "contradiction">>

\* The headers handed to validate: every small header, and the headers of
\* the test's scenarios.
PomHeaderIDs == {"h1", "h2"}

SmallPomHeaders ==
    {PomHeader(id, g, h, p, f, TRUE) :
        id \in PomHeaderIDs, g \in Addresses, h \in 0..MaxPomHeight,
        p \in 0..MaxPomHeight, f \in 0..MaxPomHeight}

PomScenarios ==
    LET header1 == createFakeBlockHeader("h1", "a1")
        header2 == createFakeBlockHeader("h2", "a1")
    IN {[header1 |-> [header1 EXCEPT !.height = 10999,
                                     !.asset.maxHeightPrevoted = 1099],
         header2 |-> [header2 EXCEPT !.height = 10999]],
        [header1 |-> [header1 EXCEPT !.height = 10999,
                                     !.asset.maxHeightPrevoted = 1099],
         header2 |-> [header2 EXCEPT !.height = 11999]],
        [header1 |-> [header1 EXCEPT !.height = 120],
         header2 |-> [header2 EXCEPT !.height = 123,
                                     !.asset.maxHeightPreviouslyForged = 98]],
        [header1 |-> [header1 EXCEPT !.height = 133,
                                     !.asset.maxHeightPrevoted = 101],
         header2 |-> [header2 EXCEPT !.height = 123,
                                     !.asset.maxHeightPrevoted = 98]],
        [header1 |-> header1, header2 |-> header1],
        [header1 |-> header1,
         header2 |-> [header2 EXCEPT !.generatorPublicKey = "a2"]]}

PomValidateInputs ==
    [header1 : SmallPomHeaders, header2 : SmallPomHeaders] \cup PomScenarios

\* One validate call to make; the engine is as the constructor left it.
InitPomValidate ==
    /\ db = EmptyDB
    /\ cache = <<>>
    /\ lastBlock = genesisBlock
    /\ numberOfValidators = -1
    /\ stateStore = ClosedStore
    /\ call \in {[op |-> "validate", asset |-> a] : a \in PomValidateInputs}
    /\ events = <<>>
    /\ outcome = NoOutcome
    /\ history = NoHistory
    /\ constants = DefaultConstants
    /\ rewardCalls = <<>>

\* transactionAsset.validate({ asset })
PomValidate ==
    /\ call.op = "validate"
    /\ LET r == RunPomValidate(PomValidateChecks, call.asset,
                               [result |-> "ok", order |-> <<>>])
       IN outcome' = Outcome("validate", call.asset, stateStore, r.result, 0, r.order)
    /\ call' = Idle
    /\ UNCHANGED <<db, cache, lastBlock, numberOfValidators, stateStore, events,
                   history>>
    /\ UNCHANGED rewardVars

NextPomValidate == PomValidate

SpecPomValidate == InitPomValidate /\ [][NextPomValidate]_vars

(***************************************************************************)
(* apply of the proof-of-misbehavior asset.  In this part stateStore is    *)
(* the store the asset is applied to (the accounts with their dpos and     *)
(* token properties, and chain.lastBlockHeaders / chain.lastBlockReward),  *)
(* and events are the reducerHandler.invoke calls that change balances.    *)
(***************************************************************************)
lastBlockHeight == 8760000
MAX_PUNISHABLE_BLOCK_HEIGHT_DIFFERENCE == 260000
MAX_POM_HEIGHTS == 5

\* A strike punishes for this many blocks; the strike of the test, 759
\* blocks before the current height, still does.
PunishmentWindow == 760

\* token:getMinRemainingBalance, and the values of chain.lastBlockReward and
\* of the accused's balance (small amounts instead of beddows).
MinRemainingBalance == 2
PomRewards == {0, 2}
PomBalances == {0, 3, 5}

\* How many punishment windows the chain grows by.
MaxPomRounds == 2

HeightOutOfRange(n) ==
    IF n = 1
    THEN "Difference between header1.height and current height must be less than 260000."
    ELSE "Difference between header2.height and current height must be less than 260000."
InvalidSignature(n) ==
    IF n = 1 THEN "Invalid block signature for header 1"
    ELSE "Invalid block signature for header 2"
NotADelegate == "Account is not a delegate"
AlreadyBanned == "Cannot apply proof-of-misbehavior. Delegate is already banned."
AlreadyPunished == "Cannot apply proof-of-misbehavior. Delegate is already punished."

\* createFakeDefaultAccount, with the properties the asset reads and writes.
PomAccount(username, pomHeights, isBanned, balance) ==
    [dpos |-> [delegate |-> [username |-> username, pomHeights |-> pomHeights,
                             isBanned |-> isBanned]],
     token |-> [balance |-> balance]]

\* new StateStoreMock(accounts, { lastBlockHeaders, lastBlockReward })
StateStoreMock(accounts, height, reward) ==
    [accounts |-> accounts,
     chain |-> [lastBlockHeaders |-> <<[height |-> height]>>,
                lastBlockReward |-> reward]]

Abs(n) == IF n < 0 THEN -n ELSE n

\* The height of the block the transaction is part of.
CurrentHeight(store) == store.chain.lastBlockHeaders[1].height + 1

\* getAddressFromPublicKey: an address and its public key are one value here.
AccusedOf(asset) == asset.header1.generatorPublicKey

\* The accused is still being punished for an earlier strike.
IsPunished(account, currentHeight) ==
    \E i \in 1..Len(account.dpos.delegate.pomHeights) :
        currentHeight - account.dpos.delegate.pomHeights[i] < PunishmentWindow

SubtractableBalanceUnfloored(balance) == balance - MinRemainingBalance

SubtractableBalance(balance) ==
    IF balance - MinRemainingBalance > 0 THEN balance - MinRemainingBalance ELSE 0

\* The amount moved from the accused to the sender.
PomReward(store, tx) ==
    LET subtractable == SubtractableBalance(store.accounts[AccusedOf(tx.asset)].token.balance)
    IN IF tx.senderAddress = AccusedOf(tx.asset) THEN 0
       ELSE IF store.chain.lastBlockReward > subtractable THEN subtractable
       ELSE store.chain.lastBlockReward

BanReachedAtFour(pomHeights) == Len(pomHeights) >= MAX_POM_HEIGHTS - 1

BanReached(pomHeights) == Len(pomHeights) >= MAX_POM_HEIGHTS

Invoke(name, address, amount) == [name |-> name, address |-> address, amount |-> amount]

\* One statement of apply on m = [result, store, invoked, order].
PomApplyStep(stmt, m, tx) ==
    LET asset == tx.asset
        accused == AccusedOf(asset)
        account == m.store.accounts[accused]
        currentHeight == CurrentHeight(m.store)
        throw(error) == [m EXCEPT !.result = error]
        check(failed, error) == IF failed THEN throw(error) ELSE m
    IN CASE stmt = "height1" ->
                check(Abs(asset.header1.height - currentHeight)
                        >= MAX_PUNISHABLE_BLOCK_HEIGHT_DIFFERENCE, HeightOutOfRange(1))
         [] stmt = "height2" ->
                check(Abs(asset.header2.height - currentHeight)
                        >= MAX_PUNISHABLE_BLOCK_HEIGHT_DIFFERENCE, HeightOutOfRange(2))
         [] stmt = "signature1" ->
                check(~asset.header1.signatureValid, InvalidSignature(1))
         [] stmt = "signature1of2" ->
                check(~asset.header1.signatureValid, InvalidSignature(2))
         [] stmt = "signature2" ->
                check(~asset.header2.signatureValid, InvalidSignature(2))
         [] stmt = "delegate" ->
                check(account.dpos.delegate.username = "", NotADelegate)
         [] stmt = "banned" ->
                check(account.dpos.delegate.isBanned, AlreadyBanned)
         [] stmt = "punished" ->
                check(IsPunished(account, currentHeight), AlreadyPunished)
         [] stmt = "strike" ->
                LET pomHeights == Append(account.dpos.delegate.pomHeights, currentHeight)
                IN [m EXCEPT !.store.accounts[accused].dpos.delegate.pomHeights = pomHeights,
                             !.store.accounts[accused].dpos.delegate.isBanned =
                                    IF BanReached(pomHeights) THEN TRUE ELSE @]
         [] stmt = "reward" ->
                LET reward == PomReward(m.store, tx)
                    credited == [m EXCEPT
                        !.store.accounts[tx.senderAddress].token.balance = @ + reward,
                        !.invoked = Append(@, Invoke("token:credit", tx.senderAddress, reward))]
                IN IF reward > 0
                   THEN [credited EXCEPT
                        !.store.accounts[accused].token.balance = @ - reward,
                        !.invoked = Append(@, Invoke("token:debit", accused, reward))]
                   ELSE credited

\* The statements in order, up to the first that throws.
RECURSIVE RunPomApply(_, _, _)
RunPomApply(stmts, m, tx) ==
    IF stmts = <<>> \/ m.result # "ok" THEN m
    ELSE RunPomApply(Tail(stmts),
                     PomApplyStep(Head(stmts), [m EXCEPT !.order = Append(@, Head(stmts))], tx),
                     tx)

PomApplyStatementsHeader2First ==
    <<"height2", "height1", "signature1", "signature2", "delegate", "banned",
      "punished", "strike", "reward">>
PomApplyStatementsOneSignature ==
    <<"height1", "height2", "signature1", "signature1of2", "delegate", "banned",
      "punished", "strike", "reward">>
PomApplyStatementsNoBanCheck ==
    <<"height1", "height2", "signature1", "signature2", "delegate",
      "punished", "strike", "reward">>
PomApplyStatementsStrikeFirst ==
    <<"strike", "height1", "height2", "signature1", "signature2", "delegate", "banned",
      "punished", "reward">>

PomApplyStatements ==
    <<"height1", "height2", "signature1", "signature2", "delegate", "banned",
      "punished", "strike", "reward">>

\* The accounts of the test: the misbehaving delegate with the strikes it
\* already carries; the other account is no delegate.
PomDelegate == "a1"
PomStrikeLists == {<<>>, <<500, 1000, 2000>>, <<500, 1000, 2000, 4550>>}

\* Header heights relative to the last block: the test's two heights, the
\* last height in range and the first out of range on either side.
Header1Offsets == {-768, 1 - MAX_PUNISHABLE_BLOCK_HEIGHT_DIFFERENCE,
                   2 - MAX_PUNISHABLE_BLOCK_HEIGHT_DIFFERENCE,
                   1 + MAX_PUNISHABLE_BLOCK_HEIGHT_DIFFERENCE}
Header2Offsets == {-753, 1 - MAX_PUNISHABLE_BLOCK_HEIGHT_DIFFERENCE,
                   MAX_PUNISHABLE_BLOCK_HEIGHT_DIFFERENCE}

\* The transactions applied at a given last block height.
PomTransactions(height) ==
    {[senderAddress |-> s,
      asset |-> [header1 |-> PomHeader("h1", g, height + o1, 0, 0, s1),
                 header2 |-> PomHeader("h2", g, height + o2, 0, 0, s2)]] :
        s \in Addresses, g \in Addresses, o1 \in Header1Offsets,
        o2 \in Header2Offsets, s1 \in BOOLEAN, s2 \in BOOLEAN}

InitPom ==
    /\ db = EmptyDB
    /\ cache = <<>>
    /\ lastBlock = genesisBlock
    /\ numberOfValidators = -1
    /\ \E strikes \in PomStrikeLists, balance \in PomBalances, reward \in PomRewards :
          stateStore = StateStoreMock(
                [a \in Addresses |->
                    IF a = PomDelegate
                    THEN PomAccount("misBehavingDelegate", strikes, FALSE, balance)
                    ELSE PomAccount("", <<>>, FALSE, 0)],
                lastBlockHeight, reward)
    /\ call = Idle
    /\ events = <<>>
    /\ outcome = NoOutcome
    /\ history = NoHistory
    /\ constants = DefaultConstants
    /\ rewardCalls = <<>>

\* transactionAsset.apply(applyContext); the caller awaits the result.
PomApply ==
    /\ call = Idle
    /\ \E tx \in PomTransactions(stateStore.chain.lastBlockHeaders[1].height) :
          LET m == RunPomApply(PomApplyStatements,
                               [result |-> "ok", store |-> stateStore,
                                invoked |-> <<>>, order |-> <<>>], tx)
          IN /\ stateStore' = m.store
             /\ events' = m.invoked
             /\ outcome' = Outcome("apply", tx, stateStore, m.result, 0, m.order)
    /\ call' = [op |-> "apply"]
    /\ UNCHANGED <<db, cache, lastBlock, numberOfValidators, history>>
    /\ UNCHANGED rewardVars

\* validate of a transaction received while the store is at hand.
PomValidateReceived ==
    /\ call = Idle
    /\ \E asset \in PomScenarios :
          LET r == RunPomValidate(PomValidateChecks, asset,
                                  [result |-> "ok", order |-> <<>>])
          IN outcome' = Outcome("validate", asset, stateStore, r.result, 0, r.order)
    /\ events' = <<>>
    /\ call' = [op |-> "validate"]
    /\ UNCHANGED <<db, cache, lastBlock, numberOfValidators, stateStore, history>>
    /\ UNCHANGED rewardVars

\* The caller takes the result of the call it awaited.
PomSettle ==
    /\ call # Idle
    /\ call' = Idle
    /\ events' = <<>>
    /\ outcome' = NoOutcome
    /\ UNCHANGED <<db, cache, lastBlock, numberOfValidators, stateStore, history>>
    /\ UNCHANGED rewardVars

\* The chain grows: to the last block of a punishment window, then past it.
PomNextBlock ==
    /\ call = Idle
    /\ LET height == stateStore.chain.lastBlockHeaders[1].height
           grown == height - lastBlockHeight
           next == IF grown % PunishmentWindow = 0
                   THEN height + PunishmentWindow - 1 ELSE height + 1
       IN /\ next <= lastBlockHeight + MaxPomRounds * PunishmentWindow
          /\ \E reward \in PomRewards :
                stateStore' = [stateStore EXCEPT
                    !.chain.lastBlockHeaders = <<[height |-> next]>>,
                    !.chain.lastBlockReward = reward]
    /\ events' = <<>>
    /\ outcome' = NoOutcome
    /\ UNCHANGED <<db, cache, lastBlock, numberOfValidators, call, history>>
    /\ UNCHANGED rewardVars

NextPom ==
    \/ PomApply
    \/ PomValidateReceived
    \/ PomSettle
    \/ PomNextBlock

SpecPom == InitPom /\ [][NextPom]_vars

(***************************************************************************)
(* Fork choice (BFT): the classification of a received header against the  *)
(* tip.  ForkStatus is the enumeration of the sources; the rules are       *)
(* modelled from section 4.4 of the specification.                         *)
(***************************************************************************)
IDENTICAL_BLOCK == 1
VALID_BLOCK == 2
DOUBLE_FORGING == 3
TIE_BREAK == 4
DIFFERENT_CHAIN == 5
DISCARD == 6
ForkStatus ==
    {IDENTICAL_BLOCK, VALID_BLOCK, DOUBLE_FORGING, TIE_BREAK, DIFFERENT_CHAIN, DISCARD}

MaxForkHeight == 1

\* A header as fork choice reads it; slotValid stands for the slot and
\* generator checks of the header.
ForkHeader(id, previousBlockID, height, prevoted, forged, generator, slotValid) ==
    [id |-> id, previousBlockID |-> previousBlockID, height |-> height,
     asset |-> [maxHeightPrevoted |-> prevoted, maxHeightPreviouslyForged |-> forged],
     generatorPublicKey |-> generator, slotValid |-> slotValid]

\* The condition of the rule that gives a status to B against the tip T.
ForkRule(status, B, T) ==
    CASE status = IDENTICAL_BLOCK -> B.id = T.id
      [] status = VALID_BLOCK -> B.previousBlockID = T.id /\ B.slotValid
      [] status = DOUBLE_FORGING ->
            /\ B.generatorPublicKey = T.generatorPublicKey
            /\ T.height <= B.height
            /\ T.asset.maxHeightPreviouslyForged > B.asset.maxHeightPreviouslyForged
      [] status = TIE_BREAK ->
            \/ /\ B.height = T.height
               /\ B.asset.maxHeightPrevoted > T.asset.maxHeightPrevoted
            \/ /\ B.asset.maxHeightPrevoted = T.asset.maxHeightPrevoted
               /\ B.height > T.height
      [] status = DISCARD ->
            \/ B.asset.maxHeightPrevoted < T.asset.maxHeightPrevoted
            \/ /\ B.asset.maxHeightPrevoted = T.asset.maxHeightPrevoted
               /\ B.height <= T.height
      [] status = DIFFERENT_CHAIN -> TRUE

\* The rules in their order of priority.
ForkRulesValidFirst ==
    <<VALID_BLOCK, IDENTICAL_BLOCK, DOUBLE_FORGING, TIE_BREAK, DISCARD, DIFFERENT_CHAIN>>

ForkRules ==
    <<IDENTICAL_BLOCK, VALID_BLOCK, DOUBLE_FORGING, TIE_BREAK, DISCARD, DIFFERENT_CHAIN>>

\* The statuses produced: that of the first rule, in order, whose condition
\* holds.
RECURSIVE Classify(_, _, _)
Classify(rules, B, T) ==
    IF rules = <<>> THEN {}
    ELSE IF ForkRule(Head(rules), B, T) THEN {Head(rules)}
    ELSE Classify(Tail(rules), B, T)

forkChoice(B, T) == Classify(ForkRules, B, T)

ForkHeaderIDs == {"b1", "b2"}

ForkHeaders ==
    {ForkHeader(id, prev, h, p, f, g, s) :
        id \in ForkHeaderIDs, prev \in ForkHeaderIDs, h \in 0..MaxForkHeight,
        p \in 0..MaxForkHeight, f \in 0..MaxForkHeight, g \in Addresses,
        s \in BOOLEAN}

\* The tip's own slot check is not read: tips are taken with it passed.
ForkCalls ==
    {[op |-> "forkChoice", block |-> B, lastBlock |-> T] :
        B \in ForkHeaders, T \in {h \in ForkHeaders : h.slotValid}}

\* One classification to make; the engine is as the constructor left it.
InitFork ==
    /\ db = EmptyDB
    /\ cache = <<>>
    /\ lastBlock = genesisBlock
    /\ numberOfValidators = -1
    /\ stateStore = ClosedStore
    /\ call \in ForkCalls
    /\ events = <<>>
    /\ outcome = NoOutcome
    /\ history = NoHistory
    /\ constants = DefaultConstants
    /\ rewardCalls = <<>>

\* forkChoice(block header, last block header)
ForkChoice ==
    /\ call.op = "forkChoice"
    /\ outcome' = Outcome("forkChoice", call.block, call.lastBlock,
                          forkChoice(call.block, call.lastBlock), 0, <<>>)
    /\ call' = Idle
    /\ UNCHANGED <<db, cache, lastBlock, numberOfValidators, stateStore, events,
                   history>>
    /\ UNCHANGED rewardVars

NextFork == ForkChoice

SpecFork == InitFork /\ [][NextFork]_vars

(***************************************************************************)
(* The engine across restarts: init, setValidators, saveBlock and           *)
(* removeBlock, where removeBlock may be handed any stored block.          *)
(***************************************************************************)
\* removeBlock called with a block of the store, the tip or not, or with a
\* block that is not the genesis block but has its version.
RemoveBlockStored ==
    \E block \in db.blocks \cup {otherGenesisBlock}, ok \in BOOLEAN :
        RemoveBlockLoad(block, ok)

NextTip ==
    \/ NewStateStore
    \/ ApplyGenesisBlock
    \/ SetValidators
    \/ SaveBlock
    \/ SaveBlockResume
    \/ RemoveBlock
    \/ RemoveBlockStored
    \/ RemoveBlockDelete
    \/ RemoveBlockResume
    \/ Restart
    \/ ChainInit

SpecTip == Init /\ [][NextTip]_vars

(***************************************************************************)
(* Chain.newStateStore(skipLastHeights): the headers and the reward the    *)
(* overlay is seeded with.                                                 *)
(***************************************************************************)
\* Stored chains of up to MaxOverlayHeight blocks above genesis, and
\* skipLastHeights up to MaxSkip.
MaxOverlayHeight == 5
MaxSkip == 3

\* Schedules whose rewards differ at the heights of these chains.
OverlayConstants ==
    {[rewardDistance |-> 1, rewardOffset |-> o, rewardMilestones |-> <<5, 3, 2>>] :
        o \in {0, 1}}

RECURSIVE OverlayBlock(_)
OverlayBlock(h) ==
    IF h = GenesisHeight THEN genesisBlock
    ELSE MakeBlock(h, OverlayBlock(h - 1).header.id, BlockVersion)

\* The store after applyGenesisBlock and the saveBlock of h blocks.
RECURSIVE OverlayDB(_)
OverlayDB(h) ==
    IF h = GenesisHeight
    THEN DataAccessSaveBlock(EmptyDB, genesisBlock,
                             ApplyGenesisBlockStore(EmptyStateStore, EmptyDB))
    ELSE DataAccessSaveBlock(OverlayDB(h - 1), OverlayBlock(h), EmptyStateStore)

\* The same store when setValidators wrote a set of two with the last block.
OverlayDBRotated(h) ==
    DataAccessSaveBlock(OverlayDB(h - 1), OverlayBlock(h),
        ConsensusSet(EmptyStateStore, OverlayDB(h - 1),
            Encode(validatorsSchema,
                   NextValidatorSet(CHOOSE v \in ValidatorCandidates : Len(v) = 2,
                                    GetValidators(OverlayDB(h - 1)), h))))

OverlayCache(h) ==
    AddBlockHeaders(<<>>, [i \in 1..(h + 1) |-> OverlayBlock(i - 1).header])

\* What the engine may hold when newStateStore is called: nothing stored at
\* the first start, or a chain with the validator count of the genesis
\* block or of the persisted set.
OverlayStates ==
    {[db |-> EmptyDB, cache |-> <<>>, lastBlock |-> genesisBlock,
      numberOfValidators |-> -1]}
    \cup {[db |-> OverlayDB(h), cache |-> OverlayCache(h), lastBlock |-> OverlayBlock(h),
           numberOfValidators |-> Len(InitDelegates)] : h \in 0..MaxOverlayHeight}
    \cup {[db |-> OverlayDBRotated(h), cache |-> OverlayCache(h),
           lastBlock |-> OverlayBlock(h), numberOfValidators |-> n] :
             h \in 1..MaxOverlayHeight, n \in {1, 2}}

\* A window of two rounds instead of three.
NewStateStoreSeedTwoRounds(d, tip, n, skipLastHeights) ==
    LET fromHeight == IF tip.header.height - n * 2 - skipLastHeights > 0
                      THEN tip.header.height - n * 2 - skipLastHeights ELSE 0
        toHeight == IF tip.header.height - skipLastHeights > 1
                    THEN tip.header.height - skipLastHeights ELSE 1
        lastBlockHeaders ==
            SortedByHeight(GetBlockHeadersByHeightBetween(d, fromHeight, toHeight))
    IN [skipLastHeights |-> skipLastHeights,
        fromHeight |-> fromHeight, toHeight |-> toHeight,
        lastBlockHeaders |-> lastBlockHeaders,
        lastBlockReward |-> ChainCalculateDefaultReward(
                                IF lastBlockHeaders = <<>> THEN 1
                                ELSE lastBlockHeaders[1].height)]

\* newStateStore up to `new StateStore(...)`: the heights asked of the store,
\* the headers it answers with, earliest first, and
\* calculateDefaultReward(lastBlockHeaders[0]?.height ?? 1).
NewStateStoreSeed(d, tip, n, skipLastHeights) ==
    LET fromHeight == IF tip.header.height - n * 3 - skipLastHeights > 0
                      THEN tip.header.height - n * 3 - skipLastHeights ELSE 0
        toHeight == IF tip.header.height - skipLastHeights > 1
                    THEN tip.header.height - skipLastHeights ELSE 1
        lastBlockHeaders ==
            SortedByHeight(GetBlockHeadersByHeightBetween(d, fromHeight, toHeight))
    IN [skipLastHeights |-> skipLastHeights,
        fromHeight |-> fromHeight, toHeight |-> toHeight,
        lastBlockHeaders |-> lastBlockHeaders,
        lastBlockReward |-> ChainCalculateDefaultReward(
                                IF lastBlockHeaders = <<>> THEN 1
                                ELSE lastBlockHeaders[1].height)]

InitOverlay ==
    /\ constants \in OverlayConstants
    /\ \E s \in OverlayStates :
          /\ db = s.db
          /\ cache = s.cache
          /\ lastBlock = s.lastBlock
          /\ numberOfValidators = s.numberOfValidators
    /\ stateStore = ClosedStore
    /\ call = Idle
    /\ events = <<>>
    /\ outcome = NoOutcome
    /\ history = NoHistory
    /\ rewardCalls = <<>>

\* chain.newStateStore(skipLastHeights): a fresh overlay with its seed.
NewStateStoreSkipping ==
    /\ call = Idle
    /\ \E skipLastHeights \in 0..MaxSkip :
          outcome' = Outcome("newStateStore",
                             NewStateStoreSeed(db, lastBlock, numberOfValidators,
                                               skipLastHeights),
                             Seen(lastBlock, cache, db), "ok", 1,
                             <<"getBlockHeadersByHeightBetween">>)
    /\ stateStore' = OpenStore(EmptyStateStore)
    /\ events' = <<>>
    /\ history' = NoHistory
    /\ UNCHANGED <<db, cache, lastBlock, numberOfValidators, call>>
    /\ UNCHANGED rewardVars

NextOverlay == NewStateStoreSkipping

SpecOverlay == InitOverlay /\ [][NextOverlay]_vars

(***************************************************************************)
(* Chain.saveBlock called while another saveBlock is awaiting its storage  *)
(* write.  The engine holds no lock: each call starts its write at once,   *)
(* the writes finish in any order, and each call resumes, in the order the *)
(* writes finished, with the statements after the await.                   *)
(***************************************************************************)
\* At most this many saveBlock calls in flight.
MaxInFlight == 2

\* The saveBlock calls in flight, each with its block and what the engine
\* held when it was called: those whose write has not finished and, in the
\* order their writes finished, those that have not resumed yet.
InFlight(writing, written) == [op |-> "saveBlocks", writing |-> writing, written |-> written]

Writing == IF call = Idle THEN {} ELSE call.writing
Written == IF call = Idle THEN <<>> ELSE call.written

\* The writes that have finished since the engine was last idle, in order,
\* and whether two calls were in flight at once.
Writes(finished, overlapped) ==
    [stage |-> "saveBlocks", finished |-> finished, overlapped |-> overlapped]

\* saveBlock(block, stateStore, ...) up to its await: the write is started.
SaveBlockBegin ==
    /\ call = Idle \/ call.op = "saveBlocks"
    /\ Started
    /\ stateStore.open
    /\ Cardinality(Writing) + Len(Written) < MaxInFlight
    /\ Cardinality(db.blocks) + Cardinality(Writing) < MaxBlocks
    /\ \E block \in SaveBlockInputs :
          /\ \A w \in Writing : w.block # block
          /\ \A i \in 1..Len(Written) : Written[i].block # block
          /\ call' = InFlight(Writing \cup {[block |-> block,
                                             started |-> Seen(lastBlock, cache, db)]},
                              Written)
    /\ history' = IF call = Idle THEN Writes(<<>>, FALSE)
                  ELSE [history EXCEPT !.overlapped = TRUE]
    /\ outcome' = NoOutcome
    /\ events' = <<>>
    /\ UNCHANGED <<db, cache, lastBlock, numberOfValidators, stateStore>>
    /\ UNCHANGED rewardVars

\* The write of one call finishes: its batch is committed, or it fails and
\* the call throws.
SaveBlockWritten ==
    /\ call # Idle
    /\ call.op = "saveBlocks"
    /\ \E w \in call.writing, ok \in BOOLEAN :
          IF ok
          THEN /\ db' = DataAccessSaveBlock(db, w.block, stateStore.store)
               /\ call' = InFlight(call.writing \ {w}, Append(call.written, w))
               /\ history' = [history EXCEPT !.finished = Append(@, w.block)]
               /\ UNCHANGED outcome
          ELSE /\ call' = IF call.writing = {w} /\ call.written = <<>>
                          THEN Idle
                          ELSE InFlight(call.writing \ {w}, call.written)
               /\ outcome' = Outcome("saveBlock", w.block, w.started,
                                     "storage error", 1, <<>>)
               /\ UNCHANGED <<db, history>>
    /\ UNCHANGED <<cache, lastBlock, numberOfValidators, stateStore, events>>
    /\ UNCHANGED rewardVars

\* The call whose write finished first resumes after its await.
SaveBlockContinue ==
    /\ call # Idle
    /\ call.op = "saveBlocks"
    /\ call.written # <<>>
    /\ LET w == Head(call.written)
           m == Exec(SaveBlockTail,
                     [cache |-> cache, lastBlock |-> lastBlock,
                      events |-> <<>>, order |-> <<"dataAccess.saveBlock">>],
                     [block |-> w.block, tip |-> w.block,
                      name |-> EVENT_NEW_BLOCK,
                      accounts |-> GetUpdated(stateStore.store), db |-> db])
       IN /\ cache' = m.cache
          /\ lastBlock' = m.lastBlock
          /\ events' = m.events
          /\ outcome' = Outcome("saveBlock", w.block, w.started, "ok", 1, m.order)
    /\ call' = IF call.writing = {} /\ Len(call.written) = 1
               THEN Idle
               ELSE InFlight(call.writing, Tail(call.written))
    /\ stateStore' = IF call.writing = {} /\ Len(call.written) = 1
                     THEN ClosedStore ELSE stateStore
    /\ UNCHANGED <<db, numberOfValidators, history>>
    /\ UNCHANGED rewardVars

NextOverlap ==
    \/ NewStateStore
    \/ ApplyGenesisBlock
    \/ SaveBlockBegin
    \/ SaveBlockWritten
    \/ SaveBlockContinue
    \/ RemoveBlock
    \/ RemoveBlockDelete
    \/ RemoveBlockResume

SpecOverlap == Init /\ [][NextOverlap]_vars

(***************************************************************************)
(* The Controller: unloading plugins.  The two registries, the one-shot    *)
(* listeners on the controller's channel and the pending unload timers are *)
(* held in `call`; `events` lists what was published, sent and killed;     *)
(* `history` lists the callbacks that ran and whether the registry entry   *)
(* they name was there.                                                    *)
(***************************************************************************)
\* The longest list of aliases one unloadPlugins call is asked to unload.
MaxRequested == 2

InMemoryAliases == {"m1"}
ChildAliases == {"c1", "c2"}
\* "x" is an alias no plugin was ever loaded under.
Aliases == InMemoryAliases \cup ChildAliases \cup {"x"}
AliasOrder == <<"m1", "c1", "c2", "x">>

\* Object.keys of a registry, in a fixed insertion order.
Keys(S) ==
    LET Has(a) == a \in S
    IN  SelectSeq(AliasOrder, Has)

\* delete registry[alias]: nothing happens when the entry is not there.
DeleteEntry(registry, alias) ==
    [a \in DOMAIN registry \ {alias} |-> registry[a]]

\* The controller: its registries, the one-shot listeners registered on its
\* channel, the unload timers that have not fired, the child processes that
\* were sent 'unload' and have not answered, and the unloadPlugins call in
\* flight (if any).
ControllerState(inMemory, child, listeners, timers, answering, run) ==
    [op |-> "controller", _inMemoryPlugins |-> inMemory, _childProcesses |-> child,
     listeners |-> listeners, timers |-> timers, answering |-> answering,
     run |-> run]

\* The callbacks that have run: which, for which alias, and whether the
\* registry held the alias when they ran.
Callbacks(log) == [stage |-> "callbacks", log |-> log]

\* What both registries hold.
Registered(c) == [inMemory |-> c._inMemoryPlugins, child |-> DOMAIN c._childProcesses]

\* The aliases unloadPlugins(plugins) goes through: the ones given, or every
\* registered one, in-memory plugins first.
PluginsToUnloadInMemoryOnly(plugins, c) ==
    IF Len(plugins) > 0 THEN plugins ELSE Keys(c._inMemoryPlugins)

PluginsToUnload(plugins, c) ==
    IF Len(plugins) > 0
    THEN plugins
    ELSE Keys(c._inMemoryPlugins) \o Keys(DOMAIN c._childProcesses)

\* The catch of the loop body: the error is kept and the loop goes on with
\* the next alias.
Caught(r, alias, error) ==
    [r EXCEPT !.errors = Append(@, [alias |-> alias, error |-> error]),
              !.i = @ + 1, !.awaiting = "none"]

\* The loop body ended without an error.
Unloaded(r) == [r EXCEPT !.i = @ + 1, !.awaiting = "none"]

\* How unloadPlugins ended, or how far it is.
UnloadOutcome(r, ended) ==
    [op |-> "unloadPlugins", plugins |-> r.plugins, started |-> r.started,
     pluginsToUnload |-> r.pluginsToUnload, attempted |-> r.attempted,
     errors |-> r.errors,
     result |-> IF ~ended THEN "pending"
                ELSE IF Len(r.errors) > 0 THEN "Unload Plugins failed" ELSE "ok"]

\* The loop of unloadPlugins from the alias it is at, up to the next await
\* that lets other callbacks run (plugin.unload() or the race of
\* _unloadChildProcessPlugin), or to its end.
RECURSIVE UnloadLoop(_, _)
UnloadLoop(c, e) ==
    LET r == c.run[1]
    IN  IF r.i > Len(r.pluginsToUnload)
        THEN [c |-> [c EXCEPT !.run = None], e |-> e, o |-> UnloadOutcome(r, TRUE)]
        ELSE
          LET alias == r.pluginsToUnload[r.i]
              at == [r EXCEPT !.attempted = Append(@, alias)]
          IN  IF alias \in c._inMemoryPlugins
              THEN \* _unloadInMemoryPlugin up to plugin.unload()
                   LET w == [at EXCEPT !.awaiting = "plugin.unload"]
                   IN  [c |-> [c EXCEPT !.run = Some(w)],
                        e |-> Append(e, <<"publish", alias, "unloading:started">>),
                        o |-> UnloadOutcome(w, FALSE)]
              ELSE IF alias \in DOMAIN c._childProcesses
              THEN IF ~c._childProcesses[alias].connected
                   THEN UnloadLoop(
                          [c EXCEPT !._childProcesses = DeleteEntry(@, alias),
                                    !.run = Some(Caught(at, alias,
                                       "Child process is not connected any more."))],
                          Append(e, <<"kill", alias, "SIGTERM">>))
                   ELSE \* _unloadChildProcessPlugin up to the race
                        LET w == [at EXCEPT !.awaiting = "race"]
                        IN  [c |-> [c EXCEPT
                                      !.listeners = @ \cup
                                          {<<alias, "unloading:finished">>,
                                           <<alias, "unloading:error">>},
                                      !.timers = @ \cup {alias},
                                      !.answering = @ \cup {alias},
                                      !.run = Some(w)],
                             e |-> Append(e, <<"send", alias, "unload">>),
                             o |-> UnloadOutcome(w, FALSE)]
              ELSE UnloadLoop(
                     [c EXCEPT !.run = Some(Caught(at, alias, "Unknown plugin"))],
                     e)

\* The lists unloadPlugins is called with.
RequestLists ==
    {<<>>} \cup UNION {[1..n -> Aliases] : n \in 1..MaxRequested}

\* The registries after loadPlugins: any of the plugins, a child process
\* connected or not.
LoadedControllers ==
    {ControllerState(m, ch, {}, {}, {}, None) :
        m \in SUBSET InMemoryAliases,
        ch \in UNION {[S -> [connected : BOOLEAN]] : S \in SUBSET ChildAliases}}

InitUnload ==
    /\ db = EmptyDB
    /\ cache = <<>>
    /\ lastBlock = genesisBlock
    /\ numberOfValidators = -1
    /\ stateStore = ClosedStore
    /\ call \in LoadedControllers
    /\ events = <<>>
    /\ outcome = NoOutcome
    /\ history = Callbacks(<<>>)
    /\ constants = DefaultConstants
    /\ rewardCalls = <<>>

ControllerFrame ==
    /\ UNCHANGED <<db, cache, lastBlock, numberOfValidators, stateStore>>
    /\ UNCHANGED rewardVars

\* The loop goes on from controller state c.
ContinueUnload(c, e) ==
    LET s == UnloadLoop(c, e)
    IN  /\ call' = s.c
        /\ events' = s.e
        /\ outcome' = s.o

\* controller.unloadPlugins(plugins), up to its first await or to its end.
UnloadPlugins ==
    /\ call.run = None
    /\ \E plugins \in RequestLists :
          ContinueUnload(
            [call EXCEPT !.run = Some([plugins |-> plugins,
                                       started |-> Registered(call),
                                       pluginsToUnload |-> PluginsToUnload(plugins, call),
                                       i |-> 1, attempted |-> <<>>, errors |-> <<>>,
                                       awaiting |-> "none"])],
            <<>>)
    /\ UNCHANGED history
    /\ ControllerFrame

\* The call in flight waits for `awaiting` of alias.
Awaits(c, awaiting, alias) ==
    /\ c.run # None
    /\ c.run[1].awaiting = awaiting
    /\ c.run[1].pluginsToUnload[c.run[1].i] = alias

\* _unloadInMemoryPlugin after plugin.unload() returned or threw: the error
\* is published, not thrown, and the entry is deleted either way.
PluginUnloadReturns ==
    /\ call.run # None
    /\ call.run[1].awaiting = "plugin.unload"
    /\ LET r == call.run[1]
           alias == r.pluginsToUnload[r.i]
       IN  \E ok \in BOOLEAN :
              ContinueUnload(
                [call EXCEPT !._inMemoryPlugins = @ \ {alias},
                             !.run = Some(Unloaded(r))],
                Append(events,
                       <<"publish", alias,
                         IF ok THEN "unloading:finished" ELSE "unloading:error">>))
    /\ UNCHANGED history
    /\ ControllerFrame

\* A callback of the race ran: the registry is c now, and the promise of the
\* race is resolved or rejected.  Only the call that still waits for this
\* race goes on; a promise that is already settled stays as it is.
SettleRace(c, e, alias, error) ==
    IF Awaits(c, "race", alias)
    THEN ContinueUnload(
           [c EXCEPT !.run = Some(IF error = None
                                  THEN Unloaded(c.run[1])
                                  ELSE Caught(c.run[1], alias, error[1]))],
           e)
    ELSE /\ call' = c
         /\ events' = e
         /\ UNCHANGED outcome

\* The callback `by` ran for alias.
Ran(alias, by) ==
    history' = Callbacks(Append(history.log,
                   [alias |-> alias, by |-> by,
                    present |-> alias \in DOMAIN call._childProcesses]))

\* The child process answers 'unload' with <alias>:unloading:finished: the
\* one-shot listener deletes the entry and resolves.
UnloadingFinished ==
    \E alias \in call.answering :
       /\ <<alias, "unloading:finished">> \in call.listeners
       /\ SettleRace([call EXCEPT !.answering = @ \ {alias},
                                  !.listeners = @ \ {<<alias, "unloading:finished">>},
                                  !._childProcesses = DeleteEntry(@, alias)],
                     events, alias, None)
       /\ Ran(alias, "unloading:finished")
       /\ ControllerFrame

\* The child process answers with <alias>:unloading:error: the one-shot
\* listener deletes the entry and rejects with the event's data.
UnloadingError ==
    \E alias \in call.answering :
       /\ <<alias, "unloading:error">> \in call.listeners
       /\ SettleRace([call EXCEPT !.answering = @ \ {alias},
                                  !.listeners = @ \ {<<alias, "unloading:error">>},
                                  !._childProcesses = DeleteEntry(@, alias)],
                     events, alias, Some("event.data"))
       /\ Ran(alias, "unloading:error")
       /\ ControllerFrame

\* The timer set by _unloadChildProcessPlugin fires after 2 seconds: it
\* reads this._childProcesses[alias] and calls kill on it, which throws a
\* TypeError out of the callback when the entry is not there; otherwise the
\* process is killed, the entry deleted and the race rejected.
UnloadTimeout ==
    \E alias \in call.timers :
       /\ IF alias \in DOMAIN call._childProcesses
          THEN SettleRace([call EXCEPT !.timers = @ \ {alias},
                                       !._childProcesses = DeleteEntry(@, alias)],
                          Append(events, <<"kill", alias, "SIGTERM">>),
                          alias, Some("Child process plugin unload timeout"))
          ELSE /\ call' = [call EXCEPT !.timers = @ \ {alias}]
               /\ events' = Append(events, <<"TypeError", alias, "kill">>)
               /\ UNCHANGED outcome
       /\ Ran(alias, "timeout")
       /\ ControllerFrame

NextUnload ==
    \/ UnloadPlugins
    \/ PluginUnloadReturns
    \/ UnloadingFinished
    \/ UnloadingError
    \/ UnloadTimeout

SpecUnload == InitUnload /\ [][NextUnload]_vars

(***************************************************************************)
(* The IPC channel of a child-process plugin.  An event name               *)
(* "module:part:..." is the sequence of its parts.  The channel is held in *)
(* `call`, what the last publish sent on the pub socket in `events`, how   *)
(* it ended in `outcome`, and the last message of the sub socket with the  *)
(* listeners it reached in `history`.                                      *)
(***************************************************************************)
ModuleAliases == {"app", "net"}
\* Event names without their module.
LocalNames == {<<"ready">>, <<"block", "new">>}
EventNames == {<<m>> \o n : m \in ModuleAliases, n \in LocalNames}

\* new Event(eventName, data): the module is the part before the first
\* colon, the name is the rest.
Event(eventName, data) ==
    [module |-> Head(eventName), name |-> Tail(eventName), data |-> data]

\* event.key(): "module:name".
EventKey(event) == <<event.module>> \o event.name

\* event.serialize(): what travels over the sockets.
EventSerialize(event) ==
    [name |-> event.name, module |-> event.module, data |-> event.data]

\* The channel: its alias, its events list and the event keys its local
\* emitter has listeners for.
ChannelState(moduleAlias, eventsList, subscribed) ==
    [op |-> "channel", moduleAlias |-> moduleAlias, eventsList |-> eventsList,
     subscribed |-> subscribed]

\* The last message of the sub socket and the listeners called for it.
Delivered(message, log) == [stage |-> "delivered", message |-> message, log |-> log]

\* publish goes on to the socket: the event is the channel's own and its
\* name is in the events list.
PublishAllowedOwnModule(event, channel) ==
    event.module = channel.moduleAlias

PublishAllowed(event, channel) ==
    ~(event.module # channel.moduleAlias \/ event.name \notin channel.eventsList)

\* The handler of the sub socket passes the message to the local emitter.
PassedToEmitter(eventData, channel) ==
    eventData.module # channel.moduleAlias

InitChannel ==
    /\ db = EmptyDB
    /\ cache = <<>>
    /\ lastBlock = genesisBlock
    /\ numberOfValidators = -1
    /\ stateStore = ClosedStore
    /\ \E moduleAlias \in ModuleAliases, eventsList \in SUBSET LocalNames :
          call = ChannelState(moduleAlias, eventsList, {})
    /\ events = <<>>
    /\ outcome = NoOutcome
    /\ history = Delivered(None, <<>>)
    /\ constants = DefaultConstants
    /\ rewardCalls = <<>>

\* channel.subscribe(eventName, cb): a listener on the local emitter.
ChannelSubscribe ==
    /\ \E eventName \in EventNames :
          call' = [call EXCEPT !.subscribed = @ \cup {EventKey(Event(eventName, None))}]
    /\ UNCHANGED <<events, outcome, history>>
    /\ ControllerFrame

\* channel.publish(eventName, data).
ChannelPublish ==
    /\ \E eventName \in EventNames, data \in {None, Some("data")} :
          LET event == Event(eventName, data)
          IN  IF ~PublishAllowed(event, call)
              THEN /\ events' = <<>>
                   /\ outcome' = [op |-> "publish", eventName |-> eventName,
                                  result |-> "Event not registered"]
              ELSE /\ events' = <<[key |-> EventKey(event),
                                   data |-> EventSerialize(event)]>>
                   /\ outcome' = [op |-> "publish", eventName |-> eventName,
                                  result |-> "ok"]
    /\ UNCHANGED <<call, history>>
    /\ ControllerFrame

\* The sub socket receives an event the bus published, the channel's own
\* events among them: it is emitted locally unless it is the channel's own,
\* and the emitter calls the listeners of its name.
SubSocketMessage ==
    /\ \E eventName \in EventNames, data \in {None, Some("data")} :
          LET eventData == EventSerialize(Event(eventName, data))
              message == [eventName |-> eventName, eventData |-> eventData]
          IN  history' =
                 Delivered(Some(message),
                           IF PassedToEmitter(eventData, call)
                              /\ eventName \in call.subscribed
                           THEN <<message>>
                           ELSE <<>>)
    /\ UNCHANGED <<call, events, outcome>>
    /\ ControllerFrame

NextChannel ==
    \/ ChannelSubscribe
    \/ ChannelPublish
    \/ SubSocketMessage

SpecChannel == InitChannel /\ [][NextChannel]_vars

(***************************************************************************)
(* Properties of saveBlock and removeBlock.                                *)
(***************************************************************************)
\* What the engine holds now.
Now == Seen(lastBlock, cache, db)

CachedIDs(c) == {c[i].id : i \in 1..Len(c)}

Ended(op) == outcome.op = op /\ outcome.result # "pending"
Succeeded(op) == outcome.op = op /\ outcome.result = "ok"
Failed(op) == Ended(op) /\ outcome.result # "ok"

\* C1: a successful saveBlock(B) of a block B extending the tip, followed by
\* a successful removeBlock(B), leaves the tip, every persisted account and
\* the persisted validator set equal to what they were before the saveBlock.
RemoveAfterSaveRestores ==
    history.stage = "removed" => Restorable(lastBlock, db) = history.before

\* A block that set accounts and the validator set was saved and removed.
RemoveAfterSaveWitness ==
    /\ history.stage = "removed"
    /\ Succeeded("removeBlock")
    /\ events[1].accounts # {}
    /\ db.consensus # outcome.started.db.consensus

\* C2: a successful saveBlock persists the block and the StateStore's diff
\* first (nothing else has changed while the rest of the call is pending),
\* then adds the header to the cache, then moves the tip, and then emits
\* exactly one NewBlock carrying the block and the updated accounts.
SaveBlockOrder ==
    /\ call.op = "saveBlock" =>
          /\ call.block \in db.blocks
          /\ cache = outcome.started.cache
          /\ lastBlock = outcome.started.lastBlock
          /\ events = <<>>
    /\ Succeeded("saveBlock") =>
          /\ outcome.order =
                <<"dataAccess.saveBlock", "addBlockHeader", "setLastBlock", "emit">>
          /\ lastBlock = outcome.block
          /\ Len(events) = 1
          /\ events[1].name = EVENT_NEW_BLOCK
          /\ events[1].block = outcome.block
          /\ {x.address : x \in DiffOf(db, outcome.block).accounts}
                = {events[1].accounts[i].address : i \in 1..Len(events[1].accounts)}
          /\ \A i \in 1..Len(events[1].accounts) :
                db.accounts[events[1].accounts[i].address]
                    = Some(events[1].accounts[i].value)
          /\ events[1].seen.lastBlock = outcome.block
          /\ events[1].seen.cache # <<>>
          /\ events[1].seen.cache[Len(events[1].seen.cache)] = outcome.block.header
          /\ outcome.block \in events[1].seen.db.blocks

\* A block that is not the genesis block was saved with two updated accounts.
SaveBlockOrderWitness ==
    /\ Succeeded("saveBlock")
    /\ outcome.block # genesisBlock
    /\ Len(events[1].accounts) = 2

\* C3 (as claimed): a saveBlock or removeBlock that fails leaves the tip, the
\* header cache and the persisted state as they were when it was called, and
\* emits nothing.
FailedCallChangesNothing ==
    (Failed("saveBlock") \/ Failed("removeBlock")) =>
        (Now = outcome.started /\ events = <<>>)

\* C4: removeBlock with the genesis block fails before any storage access,
\* changes nothing and emits nothing.
RemoveGenesisFails ==
    (outcome.op = "removeBlock" /\ outcome.block = genesisBlock) =>
        /\ outcome.result = "Cannot delete genesis block"
        /\ outcome.accesses = 0
        /\ call = Idle
        /\ Now = outcome.started
        /\ events = <<>>

\* removeBlock was called with the genesis block while the tip was another block.
RemoveGenesisWitness ==
    /\ outcome.op = "removeBlock"
    /\ outcome.block = genesisBlock
    /\ lastBlock # genesisBlock
    /\ Cardinality(db.blocks) > 1

\* C5: removeBlock of a block (past the genesis test) whose previous block the
\* store does not hold fails with 'PreviousBlock is null', reverts nothing
\* and emits nothing.
RemoveWithoutPreviousFails ==
    (/\ outcome.op = "removeBlock"
     /\ ~IsGenesis(outcome.block)
     /\ outcome.block.header.previousBlockID \notin StoredIDs(outcome.started.db)) =>
        /\ outcome.result = "PreviousBlock is null"
        /\ call = Idle
        /\ Now = outcome.started
        /\ events = <<>>

\* removeBlock was called with the orphan block on a store holding blocks.
RemoveWithoutPreviousWitness ==
    /\ outcome.op = "removeBlock"
    /\ outcome.block = orphanBlock
    /\ outcome.result = "PreviousBlock is null"
    /\ Cardinality(db.blocks) > 1

\* C6: a successful removeBlock has reverted the stored diff of the block and
\* deleted the block, the header is out of the cache, the tip is the stored
\* block with id previousBlockID, and exactly one DeleteBlock carrying the
\* block and the reverted accounts was emitted after the tip was set.
RemoveBlockSuccess ==
    Succeeded("removeBlock") =>
        /\ outcome.order = <<"getBlockByID", "deleteBlock", "removeBlockHeader",
                             "setLastBlock", "emit">>
        /\ outcome.block \notin db.blocks
        /\ \A x \in DiffOf(outcome.started.db, outcome.block).accounts :
              db.accounts[x.address] = x.previous
        /\ \A y \in DOMAIN DiffOf(outcome.started.db, outcome.block).consensus :
              db.consensus = DiffOf(outcome.started.db, outcome.block).consensus[y]
        /\ outcome.block.header.id \notin CachedIDs(cache)
        /\ lastBlock \in db.blocks
        /\ lastBlock.header.id = outcome.block.header.previousBlockID
        /\ Len(events) = 1
        /\ events[1].name = EVENT_DELETE_BLOCK
        /\ events[1].block = outcome.block
        /\ events[1].accounts = RevertedAccounts(outcome.started.db, outcome.block)
        /\ events[1].seen.lastBlock = lastBlock
        /\ outcome.block.header.id \notin CachedIDs(events[1].seen.cache)
        /\ outcome.block \notin events[1].seen.db.blocks

\* A block that had set accounts and the validator set was removed.
RemoveBlockSuccessWitness ==
    /\ Succeeded("removeBlock")
    /\ events[1].accounts # {}
    /\ DiffOf(outcome.started.db, outcome.block).consensus # <<>>

NotificationsFollowCommit ==
    \A i \in 1..Len(events) :
        /\ events[i].name = EVENT_NEW_BLOCK =>
              events[i].block \in events[i].seen.db.blocks
        /\ events[i].name = EVENT_DELETE_BLOCK =>
              events[i].block \notin events[i].seen.db.blocks
        /\ events[i].name = EVENT_VALIDATORS_CHANGED =>
              events[i].seen.db.consensus
                  = Some(Encode(validatorsSchema, events[i].validators))


(***************************************************************************)
(* Properties of the reward schedule.                                      *)
(***************************************************************************)
Calls == {rewardCalls[i] : i \in 1..Len(rewardCalls)}

\* The milestones never increase along the list.
Descending(milestones) ==
    \A i \in 1..(Len(milestones) - 1) : milestones[i] >= milestones[i + 1]

\* The run of rewardDistance heights a height at or after the offset is in,
\* counted from 0.
Run(height) == (height - constants.rewardOffset) \div constants.rewardDistance

LastRun == Len(constants.rewardMilestones) - 1

\* C9: the reward is 0 at every height below rewardOffset; with the default
\* schedule it is 0 at height 100 and 500000000 at height 2161.
RewardZeroBelowOffset ==
    \A c \in Calls :
        /\ c.height < constants.rewardOffset => c.reward = 0
        /\ constants = DefaultConstants =>
              /\ c.height = 100 => c.reward = 0
              /\ c.height = 2161 => c.reward = 500000000

\* With the default schedule the reward was asked at 100 and then at 2161.
RewardZeroBelowOffsetWitness ==
    /\ constants = DefaultConstants
    /\ Len(rewardCalls) = 2
    /\ rewardCalls[1].height = 100
    /\ rewardCalls[2].height = 2161

\* The reward is the same within a run, is the next milestone one
\* rewardDistance later, and is the last milestone after the last step.
RewardSteps ==
    \A c \in Calls, e \in Calls :
        (c.height >= constants.rewardOffset /\ e.height >= constants.rewardOffset) =>
            /\ Run(c.height) = Run(e.height) => c.reward = e.reward
            /\ (e.height = c.height + constants.rewardDistance
                    /\ Run(c.height) < LastRun) =>
                  /\ c.reward = constants.rewardMilestones[Run(c.height) + 1]
                  /\ e.reward = constants.rewardMilestones[Run(c.height) + 2]
            /\ Run(c.height) >= LastRun =>
                  c.reward = constants.rewardMilestones[LastRun + 1]

\* C10 (as claimed): for a descending milestone list the reward never
\* increases with the height, over all heights, and steps as above.
RewardNonIncreasingEverywhere ==
    Descending(constants.rewardMilestones) =>
        /\ \A c \in Calls, e \in Calls : c.height <= e.height => c.reward >= e.reward
        /\ RewardSteps

\* C10 (amended): for a descending milestone list the reward never increases
\* with the height from rewardOffset on (it rises from 0 to the first
\* milestone at rewardOffset), and steps as above.
RewardNonIncreasingFromOffset ==
    Descending(constants.rewardMilestones) =>
        /\ \A c \in Calls, e \in Calls :
              (constants.rewardOffset <= c.height /\ c.height <= e.height) =>
                  c.reward >= e.reward
        /\ RewardSteps

\* The reward was asked in one run and in a later run with a smaller milestone.
RewardNonIncreasingWitness ==
    /\ Len(rewardCalls) = 2
    /\ constants.rewardOffset <= rewardCalls[1].height
    /\ rewardCalls[2].height = rewardCalls[1].height + constants.rewardDistance
    /\ rewardCalls[1].reward > rewardCalls[2].reward
    /\ rewardCalls[2].reward > 0


(***************************************************************************)
(* Properties of validateBlockHeader, verifyBlockHeader and getValidator.  *)
(***************************************************************************)
\* The slot of a timestamp: whole block times since the genesis timestamp.
SlotOf(timestamp) == (timestamp - GenesisTimestamp) \div blockTime

\* The persisted validator list.
PersistedValidators(d) == IF d.consensus = None THEN <<>> ELSE d.consensus[1][2]

\* The member of a non-empty list that round-robin gives a slot.
RoundRobin(list, slot) == list[(slot % Len(list)) + 1]

\* C11: validateBlockHeader rejects every block whose declared reward is not
\* calculateDefaultReward(block.header.height).
ValidateRejectsWrongReward ==
    (/\ outcome.op = "validateBlockHeader"
     /\ outcome.block.header.reward
            # ChainCalculateDefaultReward(outcome.block.header.height))
        => outcome.result # "ok"

\* A block that passes the schema and signature checks is rejected for its
\* reward alone, at a height where the default reward is not 0.
ValidateRejectsWrongRewardWitness ==
    /\ outcome.op = "validateBlockHeader"
    /\ outcome.result = "Invalid block reward"
    /\ outcome.block.payloadValid
    /\ ChainCalculateDefaultReward(outcome.block.header.height) # 0
    /\ outcome.block.header.reward # 0

\* C12 (as claimed): a block verifyBlockHeader accepts declares the reward
\* calculateExpectedReward gives: the default reward of its height when its
\* seed reveal is valid, 0 when it is not.
VerifyRejectsUnexpectedReward ==
    (outcome.op = "verifyBlockHeader" /\ outcome.result = "ok")
        => outcome.block.header.reward
              = ChainCalculateExpectedReward(outcome.block.header, stateStore.store)

\* C13: a block verifyBlockHeader accepts has the tip's id as previousBlockID
\* and a slot after the tip's and not after the current one; the checks run
\* in the order previousBlockID, slot, reward, generator, the call ends at
\* the first that fails, and that check names the error.
VerifyChecksInOrder ==
    outcome.op = "verifyBlockHeader" =>
        LET block == outcome.block
            tip == outcome.started.lastBlock
            previousOk == block.header.previousBlockID = tip.header.id
            slotOk == /\ SlotOf(block.header.timestamp) > SlotOf(tip.header.timestamp)
                      /\ SlotOf(block.header.timestamp) <= SlotOf(outcome.started.now)
            all == <<"verifyPreviousBlockId", "validateBlockSlot", "verifyReward",
                     "verifyBlockGenerator">>
        IN /\ outcome.result = "ok" => (previousOk /\ slotOk)
           /\ ~previousOk =>
                 (outcome.result = "Invalid previous block" /\ outcome.order = SubSeq(all, 1, 1))
           /\ (previousOk /\ ~slotOk) =>
                 (outcome.result = "Invalid block timestamp" /\ outcome.order = SubSeq(all, 1, 2))
           /\ outcome.result = "Invalid block reward" =>
                 (previousOk /\ slotOk /\ outcome.order = SubSeq(all, 1, 3))
           /\ outcome.result \in {"Failed to verify generator", "ok"} =>
                 (previousOk /\ slotOk /\ outcome.order = all)

\* A block on another parent, in a slot the tip's slot has passed, with a
\* reward and a generator that would fail too: the first check names the error.
VerifyChecksInOrderWitness ==
    /\ outcome.op = "verifyBlockHeader"
    /\ outcome.result = "Invalid previous block"
    /\ SlotOf(outcome.block.header.timestamp)
          <= SlotOf(outcome.started.lastBlock.header.timestamp)
    /\ Len(PersistedValidators(db)) = 2
    /\ ~outcome.block.header.seedRevealValid
    /\ outcome.block.header.reward # 0

\* C14: getValidator(timestamp) returns the member of the persisted validator
\* list at index slotNumber(timestamp) mod len(validators), and a block that
\* verifyBlockHeader accepts was generated by the validator so assigned to
\* the block's slot.
RoundRobinProduction ==
    LET list == PersistedValidators(outcome.started.db)
    IN /\ (outcome.op = "getValidator" /\ list # <<>>) =>
              outcome.result = Some(RoundRobin(list, SlotOf(outcome.block)))
       /\ (outcome.op = "verifyBlockHeader" /\ outcome.result = "ok") =>
              /\ list # <<>>
              /\ outcome.block.header.generator
                    = RoundRobin(list, SlotOf(outcome.block.header.timestamp)).address

\* getValidator is asked for the last second of an odd slot with two
\* validators persisted, and answers with the second of them.
RoundRobinProductionWitness ==
    /\ outcome.op = "getValidator"
    /\ Len(PersistedValidators(db)) = 2
    /\ outcome.block = GenesisTimestamp + 2 * blockTime - 1
    /\ outcome.result = Some(PersistedValidators(db)[2])

\* C15: validateBlockHeader, accepting or rejecting, leaves the tip, the
\* header cache, the validator count and the persistent store as they were.
ValidateChangesNothing ==
    outcome.op = "validateBlockHeader" =>
        /\ lastBlock = outcome.started.lastBlock
        /\ cache = outcome.started.cache
        /\ numberOfValidators = outcome.started.numberOfValidators
        /\ db = outcome.started.db
        /\ events = <<>>

\* A block is rejected for its signature.
ValidateChangesNothingWitness ==
    /\ outcome.op = "validateBlockHeader"
    /\ outcome.result = "Invalid block signature"
    /\ outcome.order = <<"blockHeaderSchema", "assetSchema", "validateSignature">>


(***************************************************************************)
(* Properties of setValidators and applyGenesisBlock.                      *)
(***************************************************************************)
\* The validator list an encoded consensus value holds.
ValidatorsIn(buffer) == buffer[1][2]

\* The bootstrap height: validatorCount x initRounds + genesisHeight.
BootstrapHeight(validatorCount) == validatorCount * InitRounds + GenesisHeight

\* C16: below the bootstrap height setValidators writes nothing to the
\* consensus sub-store, emits nothing and raises no error; at or above it
\* the rotation is performed: the set is written and ValidatorsChanged emitted.
SetValidatorsFrozenInBootstrap ==
    outcome.op = "setValidators" =>
        IF outcome.block.height < BootstrapHeight(outcome.started.numberOfValidators)
        THEN /\ outcome.result = "skipped"
             /\ stateStore = outcome.started.stateStore
             /\ events = <<>>
        ELSE /\ outcome.result = "ok"
             /\ stateStore.store.consensus.data # None
             /\ ValidatorsIn(stateStore.store.consensus.data) # <<>>
             /\ Len(events) = 1
             /\ events[1].name = EVENT_VALIDATORS_CHANGED
             /\ events[1].validators = ValidatorsIn(stateStore.store.consensus.data)

\* setValidators is called one height below the bootstrap height, on a
\* StateStore that already holds writes.
SetValidatorsFrozenInBootstrapWitness ==
    /\ outcome.op = "setValidators"
    /\ outcome.result = "skipped"
    /\ outcome.block.height + 1 = BootstrapHeight(numberOfValidators)
    /\ stateStore.store.account.updated # <<>>

\* C17: a rotation writes exactly the candidates, in their order and with
\* their isConsensusParticipant flags; a candidate that is in the previous
\* set keeps the minActiveHeight it has there, and a candidate that is not
\* gets header.height + 1.
RotationKeepsMinActiveHeight ==
    (outcome.op = "setValidators" /\ outcome.result = "ok") =>
        LET candidates == outcome.block.validators
            previous == ValidatorsIn(outcome.started.validatorsBuffer)
            written == ValidatorsIn(stateStore.store.consensus.data)
        IN /\ Len(written) = Len(candidates)
           /\ \A i \in 1..Len(candidates) :
                 /\ written[i].address = candidates[i].address
                 /\ written[i].isConsensusParticipant = candidates[i].isConsensusParticipant
                 /\ \A j \in 1..Len(previous) :
                       previous[j].address = candidates[i].address =>
                           written[i].minActiveHeight = previous[j].minActiveHeight
                 /\ (\A j \in 1..Len(previous) :
                        previous[j].address # candidates[i].address) =>
                           written[i].minActiveHeight = outcome.block.height + 1

\* A rotation carried one validator over, with a minActiveHeight that is not
\* the new one, and added another.
RotationKeepsMinActiveHeightWitness ==
    /\ outcome.op = "setValidators"
    /\ outcome.result = "ok"
    /\ LET previous == ValidatorsIn(outcome.started.validatorsBuffer)
           written == ValidatorsIn(stateStore.store.consensus.data)
       IN /\ \E i \in 1..Len(written), j \in 1..Len(previous) :
                /\ written[i].address = previous[j].address
                /\ written[i].minActiveHeight # outcome.block.height + 1
          /\ \E i \in 1..Len(written) :
                \A j \in 1..Len(previous) : written[i].address # previous[j].address

IsLastBlockOf(block, d) ==
    block \in d.blocks /\ \A b \in d.blocks : b.header.height <= block.header.height

\* Position of a statement among those a call ran (0 when it did not run).
RanAt(stmt) ==
    IF \E i \in 1..Len(outcome.order) : outcome.order[i] = stmt
    THEN CHOOSE i \in 1..Len(outcome.order) : outcome.order[i] = stmt
    ELSE 0

\* What C19 says of an init that succeeds, and of the order of its steps:
\* the tip is the stored last block, the validator count is the length of
\* the persisted validator list, and the tip is assigned only after the
\* header cache was warmed and the validators were loaded.
InitSuccessAndOrder ==
    /\ outcome.started.db.blocks = {} => outcome.result = "Failed to load last block"
    /\ outcome.result = "ok" =>
          /\ IsLastBlockOf(lastBlock, outcome.started.db)
          /\ numberOfValidators = Len(PersistedValidators(outcome.started.db))
    /\ lastBlock # outcome.started.lastBlock =>
          /\ outcome.result = "ok"
          /\ RanAt("getValidators") > 0
          /\ RanAt("getValidators") < RanAt("setLastBlock")
          /\ lastBlock.header.height # GenesisHeight =>
                (/\ RanAt("_cacheBlockHeaders") > 0
                 /\ RanAt("_cacheBlockHeaders") < RanAt("setLastBlock")
                 /\ cache # <<>>)

\* C19 (as claimed): an init that fails with the chain-load error leaves the
\* tip at the constructor's genesis block and the validator count unset; an
\* init that succeeds is as above.
InitFailureLeavesConstructorState ==
    outcome.op = "init" =>
        /\ outcome.result = "Failed to load last block" =>
              (lastBlock = genesisBlock /\ numberOfValidators = -1)
        /\ InitSuccessAndOrder

\* C19 (amended): an init that fails with the chain-load error leaves the
\* tip, the validator count and the header cache as they were when it was
\* called (the validator count is unset only when applyGenesisBlock has not
\* run in this process); an init that succeeds is as above.
InitFailureChangesNothing ==
    outcome.op = "init" =>
        /\ outcome.result = "Failed to load last block" =>
              /\ lastBlock = outcome.started.lastBlock
              /\ lastBlock = genesisBlock
              /\ numberOfValidators = outcome.started.numberOfValidators
              /\ cache = outcome.started.cache
        /\ InitSuccessAndOrder

\* After a restart, init loaded a tip past the genesis block, warmed the
\* cache and set a validator count of two.
InitFailureChangesNothingWitness ==
    /\ outcome.op = "init"
    /\ outcome.result = "ok"
    /\ outcome.started.numberOfValidators = -1
    /\ outcome.started.cache = <<>>
    /\ lastBlock.header.height > GenesisHeight
    /\ Len(cache) = maxBlockHeaderCache
    /\ numberOfValidators = 2

\* C20: genesisBlockExist returns false when the store holds neither a last
\* block header nor a header of the candidate's id, fails with the genesis
\* mismatch error when it holds a last block header but none of the
\* candidate's id, and returns true otherwise; a storage failure other than
\* NotFound is propagated; nothing is changed.
GenesisBlockExistDecides ==
    outcome.op = "genesisBlockExist" =>
        LET d == outcome.started.db
            hasLast == d.blocks # {}
            hasCandidate == \E b \in d.blocks :
                                b.header.id = outcome.block.candidate.header.id
        IN /\ outcome.block.fail # "none" => outcome.result = "storage error"
           /\ outcome.block.fail = "none" =>
                 outcome.result = IF ~hasLast /\ ~hasCandidate THEN "false"
                                  ELSE IF hasLast /\ ~hasCandidate
                                  THEN "Genesis block does not match"
                                  ELSE "true"
           /\ Now = Seen(outcome.started.lastBlock, outcome.started.cache, d)
           /\ numberOfValidators = outcome.started.numberOfValidators
           /\ events = <<>>

\* The store holds blocks of this chain and the candidate is another
\* chain's genesis block.
GenesisBlockExistDecidesWitness ==
    /\ outcome.op = "genesisBlockExist"
    /\ outcome.result = "Genesis block does not match"
    /\ Cardinality(db.blocks) > 1
    /\ outcome.block.candidate # genesisBlock

(***************************************************************************)
(* Properties of the proof-of-misbehavior asset.                           *)
(***************************************************************************)
\* C21: validate throws the generator-mismatch error when the two headers
\* have different generator public keys, whatever else holds of them, and
\* the 'BlockHeaders are identical' error when they are the same header; the
\* generator check runs before the identity check.
PomValidateStructural ==
    outcome.op = "validate" =>
        LET header1 == outcome.block.header1
            header2 == outcome.block.header2
        IN /\ header1.generatorPublicKey # header2.generatorPublicKey
                => outcome.result = GeneratorMismatch
           /\ (/\ header1.generatorPublicKey = header2.generatorPublicKey
               /\ header1.id = header2.id)
                => outcome.result = NoContradiction
           /\ outcome.order[1] = "generatorPublicKey"
           /\ Len(outcome.order) >= 2 => outcome.order[2] = "identical"

\* A pair that fails both checks was given the generator-mismatch error.
PomValidateStructuralWitness ==
    /\ outcome.op = "validate"
    /\ outcome.block.header1.id = outcome.block.header2.id
    /\ outcome.block.header1.generatorPublicKey
            # outcome.block.header2.generatorPublicKey
    /\ outcome.result = GeneratorMismatch

AppliedAsset == outcome.block.asset
AppliedAccused == outcome.started.accounts[AppliedAsset.header1.generatorPublicKey]
AppliedHeight == outcome.started.chain.lastBlockHeaders[1].height + 1
TooFar(header) == Abs(header.height - AppliedHeight) >= 260000
HeightsInRange == ~TooFar(AppliedAsset.header1) /\ ~TooFar(AppliedAsset.header2)
SignaturesValid ==
    AppliedAsset.header1.signatureValid /\ AppliedAsset.header2.signatureValid

\* C23: apply rejects the transaction when header1.height or header2.height
\* is 260000 or more away from the current height; header1 is checked first
\* and the error names the offending header.
PomHeightsWithinRange ==
    outcome.op = "apply" =>
        /\ TooFar(AppliedAsset.header1)
            => outcome.result = HeightOutOfRange(1)
        /\ (~TooFar(AppliedAsset.header1) /\ TooFar(AppliedAsset.header2))
            => outcome.result = HeightOutOfRange(2)

\* Both headers were out of range and the error named header1.
PomHeightsWithinRangeWitness ==
    /\ outcome.op = "apply"
    /\ TooFar(AppliedAsset.header1)
    /\ TooFar(AppliedAsset.header2)
    /\ outcome.result = HeightOutOfRange(1)

\* C24: with both heights in range, apply rejects with 'Invalid block
\* signature for header 1' when only header1's signature is invalid and with
\* 'Invalid block signature for header 2' when only header2's is.
PomSignaturesIndependent ==
    (outcome.op = "apply" /\ HeightsInRange) =>
        /\ (~AppliedAsset.header1.signatureValid /\ AppliedAsset.header2.signatureValid)
            => outcome.result = InvalidSignature(1)
        /\ (AppliedAsset.header1.signatureValid /\ ~AppliedAsset.header2.signatureValid)
            => outcome.result = InvalidSignature(2)

\* header1 was properly signed, header2 was not, and the error named header 2.
PomSignaturesIndependentWitness ==
    /\ outcome.op = "apply"
    /\ HeightsInRange
    /\ AppliedAsset.header1.signatureValid
    /\ ~AppliedAsset.header2.signatureValid
    /\ outcome.result = InvalidSignature(2)

\* C25: with heights in range and signatures valid, apply rejects with
\* not-a-delegate when the accused is no registered delegate, with
\* already-banned when the accused is banned, and with already-punished when
\* a strike of the accused is still in force at the current height.
PomAccusedRejections ==
    (outcome.op = "apply" /\ HeightsInRange /\ SignaturesValid) =>
        LET delegate == AppliedAccused.dpos.delegate
            punished ==
                \E i \in 1..Len(delegate.pomHeights) :
                    AppliedHeight - delegate.pomHeights[i] < PunishmentWindow
        IN /\ delegate.username = "" => outcome.result = NotADelegate
           /\ (delegate.username # "" /\ delegate.isBanned)
                => outcome.result = AlreadyBanned
           /\ (delegate.username # "" /\ ~delegate.isBanned /\ punished)
                => outcome.result = AlreadyPunished

\* A banned delegate was reported and the report was rejected as such.
PomAccusedRejectionsWitness ==
    /\ outcome.op = "apply"
    /\ HeightsInRange
    /\ SignaturesValid
    /\ AppliedAccused.dpos.delegate.isBanned
    /\ outcome.result = AlreadyBanned

\* C26: a successful apply appends (last block height + 1) to the accused's
\* strike list; in every state every strike list has at most 5 entries and
\* the owner is banned exactly when it has 5.
PomStrikesAndBan ==
    /\ (outcome.op = "apply" /\ outcome.result = "ok") =>
            stateStore.accounts[AppliedAsset.header1.generatorPublicKey]
                    .dpos.delegate.pomHeights
                = Append(AppliedAccused.dpos.delegate.pomHeights,
                         outcome.started.chain.lastBlockHeaders[1].height + 1)
    /\ "accounts" \in DOMAIN stateStore =>
            \A a \in Addresses :
                LET delegate == stateStore.accounts[a].dpos.delegate
                IN /\ Len(delegate.pomHeights) <= 5
                   /\ delegate.isBanned <=> Len(delegate.pomHeights) = 5

\* The strikes [500, 1000, 2000, 4550] got a fifth and the delegate is banned.
PomStrikesAndBanWitness ==
    /\ outcome.op = "apply"
    /\ outcome.result = "ok"
    /\ AppliedAccused.dpos.delegate.pomHeights = <<500, 1000, 2000, 4550>>
    /\ LET delegate == stateStore.accounts[AppliedAsset.header1.generatorPublicKey]
                            .dpos.delegate
       IN /\ Len(delegate.pomHeights) = 5
          /\ delegate.isBanned

\* The amount a successful apply is to move, from what the store held.
ExpectedReward ==
    LET reward == outcome.started.chain.lastBlockReward
        affordable == AppliedAccused.token.balance - MinRemainingBalance
    IN IF outcome.block.senderAddress = AppliedAsset.header1.generatorPublicKey THEN 0
       ELSE IF affordable < 0 THEN 0
       ELSE IF reward < affordable THEN reward ELSE affordable

\* C27: a successful apply credits the sender with
\* min(lastBlockReward, accusedBalance - minRemainingBalance) floored at 0 and
\* takes that amount from the accused; when sender and accused are the same
\* address the amount is 0 and no balance changes.
PomRewardAmount ==
    (outcome.op = "apply" /\ outcome.result = "ok") =>
        LET sender == outcome.block.senderAddress
            accused == AppliedAsset.header1.generatorPublicKey
            before == outcome.started.accounts
            after == stateStore.accounts
        IN /\ events # <<>>
           /\ events[1] = Invoke("token:credit", sender, ExpectedReward)
           /\ \A i \in 1..Len(events) :
                /\ events[i].amount = ExpectedReward
                /\ events[i].name = "token:debit" => ExpectedReward > 0
           /\ sender # accused =>
                /\ after[sender].token.balance
                        = before[sender].token.balance + ExpectedReward
                /\ after[accused].token.balance
                        = before[accused].token.balance - ExpectedReward
           /\ sender = accused =>
                /\ ExpectedReward = 0
                /\ after[sender].token.balance = before[sender].token.balance

\* The accused could afford only a part of the last block's reward.
PomRewardAmountWitness ==
    /\ outcome.op = "apply"
    /\ outcome.result = "ok"
    /\ outcome.block.senderAddress # AppliedAsset.header1.generatorPublicKey
    /\ ExpectedReward > 0
    /\ ExpectedReward < outcome.started.chain.lastBlockReward
    /\ events[1].amount = ExpectedReward

\* C28: every rejection of validate or apply leaves the store as it was:
\* strike lists, banned flags and balances are unchanged and no credit or
\* debit was invoked.
PomRejectionChangesNothing ==
    (outcome.op \in {"apply", "validate"} /\ outcome.result # "ok") =>
        /\ stateStore = outcome.started
        /\ events = <<>>

\* A report of a delegate still being punished was rejected.
PomRejectionChangesNothingWitness ==
    /\ outcome.op = "apply"
    /\ outcome.result = AlreadyPunished
    /\ stateStore = outcome.started

(***************************************************************************)
(* Properties of fork choice.                                              *)
(***************************************************************************)
\* The rules of section 4.4, highest priority first.
StatedPriority ==
    <<IDENTICAL_BLOCK, VALID_BLOCK, DOUBLE_FORGING, TIE_BREAK, DISCARD, DIFFERENT_CHAIN>>

CommitStep == call = Idle /\ call'.op = "saveBlock"

\* The step is deleteBlock's reversal of a stored diff.
RevertStep == call.op = "removeBlock" /\ call.stage = "deleteBlock"

\* The persisted state behind the overlay.
Persisted(d) == [accounts |-> d.accounts, consensus |-> d.consensus]

\* The step is a found read of address a through the overlay.
ReadStep(a) ==
    /\ outcome'.op = "account.get"
    /\ outcome'.block = a
    /\ outcome'.result = "ok"

\* C30: the persisted accounts and consensus state change only when
\* saveBlock commits the StateStore (or deleteBlock reverses a stored diff),
\* and the commit writes exactly the dirty entries with the overlay's values;
\* discarding a StateStore writes nothing; an address read or set stays in
\* the overlay for the lifetime of the instance, and a read of it returns
\* the overlay's value without a storage access.
StateStoreWritesAndReads ==
    [][/\ Persisted(db') # Persisted(db) => CommitStep \/ RevertStep
       /\ CommitStep =>
            /\ \A a \in Addresses :
                 db'.accounts[a] =
                    IF a \in Dirty(stateStore.store)
                    THEN stateStore.store.account.data[a] ELSE db.accounts[a]
            /\ db'.consensus =
                    IF stateStore.store.consensus.data # None
                    THEN stateStore.store.consensus.data ELSE db.consensus
       /\ (stateStore.open /\ stateStore' # stateStore /\ ~stateStore'.open)
            => Persisted(db') = Persisted(db)
       /\ (/\ stateStore.open
           /\ stateStore' # stateStore
           /\ stateStore' = OpenStore(EmptyStateStore))
            => Persisted(db') = Persisted(db)
       /\ \A a \in Addresses :
            /\ ReadStep(a) =>
                /\ stateStore'.store.account.data[a] = outcome'.order
                /\ stateStore.store.account.data[a] # None =>
                      /\ outcome'.order = stateStore.store.account.data[a]
                      /\ outcome'.accesses = 0
                /\ stateStore.store.account.data[a] = None =>
                      /\ outcome'.order = db.accounts[a]
                      /\ outcome'.accesses = 1
            /\ (/\ stateStore.open
                /\ stateStore'.open
                /\ stateStore' # OpenStore(EmptyStateStore)
                /\ stateStore.store.account.data[a] # None)
                => stateStore'.store.account.data[a] # None
      ]_vars

\* An account that was read, not set, is in the overlay of a StateStore
\* whose commit is under way, and an account that was set is dirty.
StateStoreWritesAndReadsWitness ==
    /\ call.op = "saveBlock"
    /\ \E a \in Addresses :
          /\ a \notin Dirty(stateStore.store)
          /\ stateStore.store.account.data[a] # None
    /\ Dirty(stateStore.store) # {}

(***************************************************************************)
(* Properties of the header cache, of start-up and of the overlay          *)
(* newStateStore builds.                                                   *)
(***************************************************************************)
\* A call of the given operation has completed without throwing and nothing
\* has been called since.
Completed(op) == call = Idle /\ outcome.op = op /\ outcome.result = "ok"

Newest(c) == c[Len(c)]

\* The cache never holds more than its maximum, and a saveBlock on a full
\* cache drops the oldest header and nothing else.
CacheBoundedOldestEvicted ==
    /\ Len(cache) <= maxBlockHeaderCache
    /\ Completed("saveBlock") =>
          cache = IF Len(outcome.started.cache) = maxBlockHeaderCache
                  THEN Append(Tail(outcome.started.cache), outcome.block.header)
                  ELSE Append(outcome.started.cache, outcome.block.header)

\* C31 as stated: the header cache holds at most maxCacheSize headers, the
\* oldest header is the one evicted when the bound is exceeded, and after
\* any completed init, saveBlock or removeBlock the newest cached header is
\* the header of the current tip.
HeaderCacheTracksTip ==
    /\ CacheBoundedOldestEvicted
    /\ (Completed("init") \/ Completed("saveBlock") \/ Completed("removeBlock"))
          /\ cache # <<>>
          => Newest(cache) = lastBlock.header

\* The stored blocks form one chain from genesis: one block per height, each
\* block above genesis one higher than its stored previous block.
OneChain(d) ==
    /\ \A b, c \in d.blocks : b.header.height = c.header.height => b = c
    /\ \A b \in d.blocks :
          \/ b = genesisBlock
          \/ /\ b.header.previousBlockID \in StoredIDs(d)
             /\ GetBlockByID(d, b.header.previousBlockID).header.height
                   = b.header.height - 1

\* The cache ends with the header of the tip and each cached header is the
\* previous block of the next.
TipCached(c, tip) ==
    /\ c # <<>>
    /\ Newest(c) = tip.header
    /\ \A i \in 1..(Len(c) - 1) : c[i + 1].previousBlockID = c[i].id

\* The steps that complete a saveBlock, an init, and a removeBlock that was
\* given the tip.
SaveBlockCompletes == call.op = "saveBlock" /\ call' = Idle
InitCompletes ==
    /\ call = Idle /\ lastBlock = genesisBlock
    /\ outcome'.op = "init" /\ outcome'.result = "ok"
    /\ outcome'.started.cache = cache
RemoveTipCompletes ==
    /\ call.op = "removeBlock" /\ call.stage = "removeBlockHeader"
    /\ call.block = lastBlock
    /\ outcome'.result = "ok"

\* C31: the header cache holds at most maxCacheSize headers and the oldest
\* header is the one evicted when the bound is exceeded; the newest cached
\* header is the header of the tip after a completed saveBlock, after a
\* completed init that found a tip past genesis in a store that is one
\* chain, and after a completed removeBlock of the tip when the cache ended
\* with the tip's header and its ancestors before.
HeaderCacheTracksTipWhenTipRemoved ==
    [][/\ CacheBoundedOldestEvicted'
       /\ SaveBlockCompletes => Newest(cache') = lastBlock'.header
       /\ InitCompletes /\ lastBlock' # genesisBlock /\ OneChain(db)
             => TipCached(cache', lastBlock')
       /\ RemoveTipCompletes /\ TipCached(cache, lastBlock)
             => TipCached(cache', lastBlock')]_vars

\* A removeBlock of the tip, whose header was the only one cached, has
\* completed and refilled the cache from the store.
HeaderCacheTracksTipWitness ==
    /\ Completed("removeBlock")
    /\ outcome.block = outcome.started.lastBlock
    /\ TipCached(outcome.started.cache, outcome.started.lastBlock)
    /\ Len(outcome.started.cache) = 1
    /\ TipCached(cache, lastBlock)

\* The orders in which the headers of a set can be added one by one.
Orders(headers) ==
    {s \in [1..Cardinality(headers) -> headers] :
        \A i, j \in 1..Cardinality(headers) : s[i] = s[j] => i = j}

StrictlyAscending(s) ==
    \A i, j \in 1..Len(s) : i < j => s[i].height < s[j].height

\* The stored headers of the heights max(tip.height - maxCacheSize, 0) to
\* tip.height.
TrailingWindow(d, tip) ==
    {b.header : b \in {x \in d.blocks :
        /\ x.header.height <= tip.header.height
        /\ x.header.height >= tip.header.height - maxBlockHeaderCache
        /\ x.header.height >= 0}}

Seeded == outcome.op = "newStateStore"
Seed == outcome.block

\* The window newStateStore is to ask for, and the stored headers in it.
SeedWindowAsked ==
    LET tip == lastBlock.header.height
        low == tip - 3 * numberOfValidators - Seed.skipLastHeights
        high == tip - Seed.skipLastHeights
    IN /\ Seed.fromHeight = IF low > 0 THEN low ELSE 0
       /\ Seed.toHeight = IF high > 1 THEN high ELSE 1
       /\ {Seed.lastBlockHeaders[i] : i \in 1..Len(Seed.lastBlockHeaders)}
             = {b.header : b \in {x \in db.blocks :
                    /\ Seed.fromHeight <= x.header.height
                    /\ x.header.height <= Seed.toHeight}}
       /\ Len(Seed.lastBlockHeaders) = Cardinality(
             {x \in db.blocks : /\ Seed.fromHeight <= x.header.height
                                /\ x.header.height <= Seed.toHeight})

\* The header of the window no other is below.
EarliestInWindow ==
    CHOOSE h \in {Seed.lastBlockHeaders[i] : i \in 1..Len(Seed.lastBlockHeaders)} :
        \A i \in 1..Len(Seed.lastBlockHeaders) : h.height <= Seed.lastBlockHeaders[i].height

RewardlessAfterInvalidReveal ==
    /\ outcome.op \in {"validateBlockHeader", "verifyBlockHeader"}
    /\ ChainCalculateDefaultReward(outcome.block.header.height) # 0
    /\ ~outcome.block.header.seedRevealValid
    /\ outcome.block.header.reward = 0

\* The last header check reached its reward check.
RewardChecked ==
    \E i \in 1..Len(outcome.order) : outcome.order[i] \in {"validateReward", "verifyReward"}

TipIsLastPersisted(d, tip) ==
    /\ tip \in d.blocks
    /\ \A b \in d.blocks :
          (b = tip) <=> ~(\E c \in d.blocks : c.header.previousBlockID = b.header.id)

\* The last call was a saveBlock or a removeBlock that has completed, with
\* no other call in flight meanwhile, on a store whose last block was the tip
\* (or on the empty store of a first start).
SerialisedCallCompleted ==
    /\ call = Idle
    /\ outcome.op \in {"saveBlock", "removeBlock"}
    /\ outcome.result = "ok"
    /\ outcome.op = "saveBlock" => ~history.overlapped
    /\ \/ outcome.started.db.blocks = {}
       \/ TipIsLastPersisted(outcome.started.db, outcome.started.lastBlock)

\* Two saveBlock calls were in flight at once and both have completed.
OverlappedCallsCompleted ==
    /\ call = Idle
    /\ outcome.op = "saveBlock"
    /\ outcome.result = "ok"
    /\ history.overlapped
    /\ Len(history.finished) >= 2

StateStoreWindow ==
    LET seed == NewStateStoreSeed(db, lastBlock, numberOfValidators, 0)
    IN <<seed.fromHeight, seed.toHeight>>

\* The step is the constructor's (a restart), init's or applyGenesisBlock's.
AssignsValidatorCount ==
    \/ outcome'.op \in {"init", "applyGenesisBlock"}
    \/ /\ numberOfValidators' = -1
       /\ lastBlock' = genesisBlock /\ cache' = <<>> /\ outcome' = NoOutcome

\* The step is one of setValidators, or of saveBlock or removeBlock from the
\* call to its return.
SetSaveOrRemoveStep ==
    \/ outcome'.op = "setValidators"
    \/ call # Idle /\ call.op \in {"saveBlock", "removeBlock"}
    \/ call' # Idle /\ call'.op \in {"saveBlock", "removeBlock"}

\* C36: the validator count changes only in a step of init or of
\* applyGenesisBlock (or when the engine is constructed anew); no step of
\* setValidators, saveBlock or removeBlock changes it, nor the bootstrap
\* height, and at an unchanged tip the newStateStore window stays the same,
\* even when setValidators writes a validator set of another length.
ValidatorCountAssignedAtStartOnly ==
    [][/\ numberOfValidators' # numberOfValidators => AssignsValidatorCount
       /\ SetSaveOrRemoveStep =>
             /\ numberOfValidators' = numberOfValidators
             /\ _getLastBootstrapHeight' = _getLastBootstrapHeight
             /\ lastBlock' = lastBlock => StateStoreWindow' = StateStoreWindow]_vars

\* setValidators has written a set of two validators and the block that
\* carries it is saved, while the engine still counts one validator.
ValidatorCountAssignedAtStartOnlyWitness ==
    /\ Completed("saveBlock")
    /\ numberOfValidators = 1
    /\ Len(GetValidators(db)) = 2
    /\ Len(GetValidators(outcome.started.db)) = 1

\* C37: removeBlock refuses a block exactly when its version is the genesis
\* version, whether or not it is the genesis block; given any stored block
\* of another version whose previous block is stored, the tip or not, it
\* fails only when a storage operation fails, and when it returns the block
\* is deleted and the tip is that block's previous block, whatever the tip
\* was before.
RemoveBlockIgnoresTip ==
    (call = Idle /\ outcome.op = "removeBlock") =>
       LET block == outcome.block
           before == outcome.started
       IN /\ outcome.result = "Cannot delete genesis block"
                <=> block.header.version = genesisBlock.header.version
          /\ (/\ block \in before.db.blocks
              /\ block.header.version # genesisBlock.header.version
              /\ block.header.previousBlockID \in StoredIDs(before.db)) =>
                /\ outcome.result \in {"ok", "PreviousBlock is null", "storage error"}
                /\ outcome.result = "PreviousBlock is null" =>
                      outcome.order = <<>> /\ lastBlock = before.lastBlock
                /\ outcome.result = "ok" =>
                      /\ block \notin db.blocks
                      /\ lastBlock = GetBlockByID(before.db, block.header.previousBlockID)

\* removeBlock has returned for a stored block below the tip: the tip went
\* from the block's successor to its previous block.
RemoveBlockIgnoresTipWitness ==
    /\ Completed("removeBlock")
    /\ outcome.block # outcome.started.lastBlock
    /\ outcome.started.lastBlock.header.previousBlockID = outcome.block.header.id
    /\ outcome.started.lastBlock \in db.blocks
    /\ lastBlock.header.id = outcome.block.header.previousBlockID

(***************************************************************************)
(* Properties of the controller's unloadPlugins.                           *)
(***************************************************************************)
\* An unloadPlugins call has returned or thrown, and no other has begun.
UnloadPluginsEnded == outcome.op = "unloadPlugins" /\ outcome.result # "pending"

\* The aliases of a list.
AliasesOf(list) == {list[k] : k \in 1..Len(list)}

\* C38: when unloadPlugins has returned or thrown, it has gone through every
\* alias it was asked to unload, in order, whatever failed on the way (with
\* no argument: through every plugin that was registered); every alias that
\* was in neither registry is among the errors as an unknown plugin; it has
\* thrown 'Unload Plugins failed' exactly when the loop caught an error; and
\* after a call with no argument both registries are empty.
UnloadPluginsAttemptsAllAndEmpties ==
    UnloadPluginsEnded =>
      /\ outcome.attempted = outcome.pluginsToUnload
      /\ outcome.plugins # <<>> => outcome.attempted = outcome.plugins
      /\ outcome.plugins = <<>> =>
            AliasesOf(outcome.attempted) =
               outcome.started.inMemory \cup outcome.started.child
      /\ \A alias \in AliasesOf(outcome.plugins) :
            alias \notin outcome.started.inMemory \cup outcome.started.child
            => \E k \in 1..Len(outcome.errors) :
                  outcome.errors[k] = [alias |-> alias, error |-> "Unknown plugin"]
      /\ (outcome.result = "Unload Plugins failed") = (Len(outcome.errors) > 0)
      /\ outcome.plugins = <<>> =>
            Registered(call) = [inMemory |-> {}, child |-> {}]

\* A call with no argument has thrown after it went on past the plugin that
\* failed: two child processes were registered, the first one's unload
\* raised and the second one was still unloaded.
UnloadPluginsAttemptsAllAndEmptiesWitness ==
    /\ UnloadPluginsEnded
    /\ outcome.plugins = <<>>
    /\ outcome.result = "Unload Plugins failed"
    /\ outcome.started.child = ChildAliases
    /\ outcome.errors[1].alias = "c1"
    /\ outcome.attempted[Len(outcome.attempted)] = "c2"

\* The callbacks of _unloadChildProcessPlugin that have run for alias, as
\* positions of the log.
CallbacksFor(alias) ==
    {k \in 1..Len(history.log) : history.log[k].alias = alias}

\* The entry of alias was removed by its finished or error listener at
\* position j of the log.
RemovedByEvent(j) ==
    /\ history.log[j].by \in {"unloading:finished", "unloading:error"}
    /\ history.log[j].present

\* C39: once the finished or the error listener has removed a child
\* process's entry, no later callback of that unload (the 2-second timeout in
\* particular) runs on the entry, and whatever the order of the finished
\* event, the error event and the timeout, one callback only finds an entry
\* to remove.
RemovedChildEntryIsNotTouchedAgain ==
    history.stage = "callbacks" =>
      \A alias \in ChildAliases :
         /\ \A j \in CallbacksFor(alias), k \in CallbacksFor(alias) :
               RemovedByEvent(j) => k <= j
         /\ Cardinality({k \in CallbacksFor(alias) : history.log[k].present}) <= 1

(***************************************************************************)
(* Properties of the IPC channel.                                          *)
(***************************************************************************)
\* The channel's own event of a registered name.
OwnRegistered(eventName) ==
    /\ eventName[1] = call.moduleAlias
    /\ SubSeq(eventName, 2, Len(eventName)) \in call.eventsList

====
